---- MODULE Spec2Model ----
(***************************************************************************)
(* A model of greina: a block-addressed filesystem whose metadata lives in *)
(* one persistent B+-tree.  The module models                              *)
(*   - the tree node codec (src/tree/node/mod.rs),                         *)
(*   - the B+-tree engine (src/tree/mod.rs),                               *)
(*   - the bitmap allocator (src/block/allocator/bitmap.rs),               *)
(*   - the buffered transaction (src/fs/transaction, src/fs/mod.rs),       *)
(*   - files and extents (src/fs/node).                                    *)
(*                                                                         *)
(* Geometry.  The record sizes (header, key, leaf item, branch item) are   *)
(* the sizes of the source's structs.  BLOCK_SIZE and DATA_MAX_LEN are     *)
(* scaled down (4096 -> 136, 512 -> 16) so that a branch holds 5 items and *)
(* trees of height 2 are reached with a dozen keys.  The scaling keeps the *)
(* relations of the source's geometry: a leaf item with a payload of       *)
(* DATA_MAX_LEN takes at most a third of a node, and two branches at the   *)
(* occupancy threshold fit into one.                                       *)
(* Every size relation of the code is computed from these definitions as   *)
(* the code computes it.                                                   *)
(***************************************************************************)
EXTENDS Integers, Sequences, FiniteSets, TLC

\* ------------------------------------------------------------------------
\* Geometry
\* ------------------------------------------------------------------------
BLOCK_SIZE == 136
DATA_MAX_LEN == 16
HEADER_SIZE == 6
KEY_SIZE == 17
LEAF_ITEM_SIZE == 21
BRANCH_ITEM_SIZE == 25

NODE_CAPACITY == BLOCK_SIZE - HEADER_SIZE
OCCUPANCY_THRESH == NODE_CAPACITY \div 2

is_deficient(used) == used < OCCUPANCY_THRESH

\* A byte read from outside the live bytes of a block.
Poison == -1

\* With(v, F) is F(v): the value v is written once and named by F's parameter
With(v, F(_)) == F(v)

Min(a, b) == IF a < b THEN a ELSE b
Max(a, b) == IF a < b THEN b ELSE a
DivCeil(a, b) == (a + b - 1) \div b

\* ------------------------------------------------------------------------
\* Keys: <<id, datatype, offset>>, ordered lexicographically
\* ------------------------------------------------------------------------
DT_Node == 0
DT_Extent == 1
DT_DirEntry == 2

Key_new(id, datatype, offset) == <<id, datatype, offset>>

KeyLt(a, b) ==
    \/ a[1] < b[1]
    \/ a[1] = b[1] /\ a[2] < b[2]
    \/ a[1] = b[1] /\ a[2] = b[2] /\ a[3] < b[3]

KeyLe(a, b) == a = b \/ KeyLt(a, b)

\* ------------------------------------------------------------------------
\* Node codec.  A node block is
\*   [height, items, data_offset, data]
\* items is the item array (item_count = Len(items)); data holds the bytes
\* of the block from data_offset to BLOCK_SIZE (the data heap of a leaf).
\* A leaf item is [key, offset, size], a branch item [key, child].
\* ------------------------------------------------------------------------
Node_format(height) ==
    [height |-> height, items |-> <<>>, data_offset |-> BLOCK_SIZE, data |-> <<>>]

ITEM_SIZE(node) == IF node.height = 0 THEN LEAF_ITEM_SIZE ELSE BRANCH_ITEM_SIZE

item_count(node) == Len(node.items)

used_space(node) ==
    item_count(node) * ITEM_SIZE(node) + (BLOCK_SIZE - node.data_offset)

free_space(node) == NODE_CAPACITY - used_space(node)

can_insert(node, count, data_size) ==
    free_space(node) >= count * ITEM_SIZE(node) + data_size

Node_is_deficient(node) == is_deficient(used_space(node))

lower_bound(node) == node.items[1].key

\* Index (1-based) of the item with the key, 0 when there is none.
get_item_idx(node, key) ==
    IF \E i \in 1..item_count(node) : node.items[i].key = key
    THEN CHOOSE i \in 1..item_count(node) : node.items[i].key = key
    ELSE 0

\* partition_point(|item| item.key() <= key)
PartitionLe(node, key) ==
    Cardinality({i \in 1..item_count(node) : KeyLe(node.items[i].key, key)})

\* partition point of the binary search: the number of keys below key
PartitionLt(node, key) ==
    Cardinality({i \in 1..item_count(node) : KeyLt(node.items[i].key, key)})

\* Index (1-based) of the greatest item with key <= key, 0 when none.
get_item_idx_le(node, key) == PartitionLe(node, key)

InsertAt(seq, idx, x) ==
    SubSeq(seq, 1, idx - 1) \o <<x>> \o SubSeq(seq, idx, Len(seq))

RemoveAt(seq, idx) ==
    SubSeq(seq, 1, idx - 1) \o SubSeq(seq, idx + 1, Len(seq))

\* insert_item that pushes the item at the end instead of at its sorted place
insert_item_at_end(node, item) ==
    IF get_item_idx(node, item.key) # 0
    THEN [err |-> "Occupied", node |-> node]
    ELSE [err |-> "ok", node |-> [node EXCEPT !.items = Append(node.items, item)]]

\* Result: [err |-> "ok" | "Occupied", node |-> node']
insert_item(node, item) ==
    IF get_item_idx(node, item.key) # 0
    THEN [err |-> "Occupied", node |-> node]
    ELSE [err |-> "ok",
          node |-> [node EXCEPT !.items =
                        InsertAt(node.items, PartitionLt(node, item.key) + 1, item)]]

insert_items_front(node, items) == [node EXCEPT !.items = items \o node.items]

insert_items_back(node, items) == [node EXCEPT !.items = node.items \o items]

\* Result: [some |-> BOOLEAN, item |-> the removed item, node |-> node']
remove_item_at(node, idx) ==
    IF idx < 1 \/ idx > item_count(node)
    THEN [some |-> FALSE, item |-> <<>>, node |-> node]
    ELSE [some |-> TRUE, item |-> node.items[idx],
          node |-> [node EXCEPT !.items = RemoveAt(node.items, idx)]]

\* self.take_items_from_right(right, count): <<self', right'>>
take_items_from_right(self, right, count) ==
    <<insert_items_back(self, SubSeq(right.items, 1, count)),
      [right EXCEPT !.items = SubSeq(right.items, count + 1, Len(right.items))]>>

\* self.take_items_from_left(left, count): <<self', left'>>
take_items_from_left(self, left, count) ==
    <<insert_items_front(self,
          SubSeq(left.items, Len(left.items) - count + 1, Len(left.items))),
      [left EXCEPT !.items = SubSeq(left.items, 1, Len(left.items) - count)]>>

\* ------------------------------------------------------------------------
\* Branch
\* ------------------------------------------------------------------------
ITEM_OCCUPANCY_THRESH == DivCeil(OCCUPANCY_THRESH, BRANCH_ITEM_SIZE)

ITEM_CAPACITY == NODE_CAPACITY \div BRANCH_ITEM_SIZE

BranchItem_new(key, child) == [key |-> key, child |-> child]

\* Index (1-based) of the item whose child covers the key.
child_idx_for(branch, key) == Max(PartitionLe(branch, key), 1)

\* Result: [some |-> BOOLEAN, addr |-> child address]
child_at(branch, idx) ==
    IF idx >= 1 /\ idx <= item_count(branch)
    THEN [some |-> TRUE, addr |-> branch.items[idx].child]
    ELSE [some |-> FALSE, addr |-> 0]

child_for(branch, key) == branch.items[child_idx_for(branch, key)].child

\* Result: [err |-> "ok" | "Overflow" | "Panic", node |-> node']
Branch_insert(branch, key, child) ==
    IF ~can_insert(branch, 1, 0)
    THEN [err |-> "Overflow", node |-> branch]
    ELSE With(insert_item(branch, BranchItem_new(key, child)), LAMBDA r :
             IF r.err = "ok" THEN r ELSE [err |-> "Panic", node |-> branch])

Branch_remove_at(branch, idx) == remove_item_at(branch, idx).node

set_key_at(branch, idx, key) == [branch EXCEPT !.items[idx].key = key]

\* ------------------------------------------------------------------------
\* Leaf
\* ------------------------------------------------------------------------
LeafItem_new(key, offset, size) == [key |-> key, offset |-> offset, size |-> size]

\* The byte of the block at an absolute offset.
ByteAt(leaf, o) ==
    IF o >= leaf.data_offset /\ o < BLOCK_SIZE
    THEN leaf.data[o - leaf.data_offset + 1]
    ELSE Poison

get_for_item(leaf, item) ==
    [i \in 1..item.size |-> ByteAt(leaf, item.offset + i - 1)]

\* Result: [some |-> BOOLEAN, data |-> bytes]
Leaf_get(leaf, key) ==
    With(get_item_idx(leaf, key), LAMBDA idx :
        IF idx = 0 THEN [some |-> FALSE, data |-> <<>>]
        ELSE [some |-> TRUE, data |-> get_for_item(leaf, leaf.items[idx])])

\* Result: [some |-> BOOLEAN, key |-> key found, data |-> bytes]
Leaf_get_le(leaf, key) ==
    With(get_item_idx_le(leaf, key), LAMBDA idx :
        IF idx = 0 THEN [some |-> FALSE, key |-> <<>>, data |-> <<>>]
        ELSE [some |-> TRUE, key |-> leaf.items[idx].key,
              data |-> get_for_item(leaf, leaf.items[idx])])

\* Leaf::insert that accepts a key the leaf already holds, leaving the stored
\* item as it is.
Leaf_insert_accepts_present(leaf, key, data) ==
    IF get_item_idx(leaf, key) # 0 THEN [err |-> "ok", node |-> leaf]
    ELSE IF ~can_insert(leaf, 1, Len(data))
    THEN [err |-> "Overflow", node |-> leaf]
    ELSE With(Len(data), LAMBDA size :
         With(leaf.data_offset - size, LAMBDA offset :
         With(insert_item(leaf, LeafItem_new(key, offset, size)), LAMBDA r :
             [err |-> "ok",
              node |-> [r.node EXCEPT !.data = data \o leaf.data,
                                      !.data_offset = offset]])))

\* Result: [err |-> "ok" | "Overflow" | "Occupied", node |-> node']
Leaf_insert(leaf, key, data) ==
    IF ~can_insert(leaf, 1, Len(data))
    THEN [err |-> "Overflow", node |-> leaf]
    ELSE With(Len(data), LAMBDA size :
         With(leaf.data_offset - size, LAMBDA offset :
         With(insert_item(leaf, LeafItem_new(key, offset, size)), LAMBDA r :
             IF r.err # "ok" THEN [err |-> "Occupied", node |-> leaf]
             ELSE [err |-> "ok",
                   node |-> [r.node EXCEPT !.data = data \o leaf.data,
                                           !.data_offset = offset]])))

\* insert_with_strategy with insert_items_back
insert_back(leaf, key, data) ==
    With(Len(data), LAMBDA size :
    With(leaf.data_offset - size, LAMBDA offset :
    With(insert_items_back(leaf, <<LeafItem_new(key, offset, size)>>), LAMBDA n :
        [n EXCEPT !.data = data \o leaf.data, !.data_offset = offset])))

\* insert_with_strategy with insert_items_front
insert_front(leaf, key, data) ==
    With(Len(data), LAMBDA size :
    With(leaf.data_offset - size, LAMBDA offset :
    With(insert_items_front(leaf, <<LeafItem_new(key, offset, size)>>), LAMBDA n :
        [n EXCEPT !.data = data \o leaf.data, !.data_offset = offset])))

\* Leaf::remove_at without the shift of the offsets of the items whose data
\* moved: the heap is compacted, the items still point at the old places.
Leaf_remove_at_stale_offsets(leaf, idx) ==
    With(remove_item_at(leaf, idx), LAMBDA r :
        IF ~r.some THEN [some |-> FALSE, data |-> <<>>, node |-> leaf]
        ELSE
        With(r.item, LAMBDA target :
        With(leaf.data_offset + target.size, LAMBDA new_offset :
        With([j \in 1..(BLOCK_SIZE - new_offset) |->
                With(new_offset + j - 1, LAMBDA o :
                    IF o < target.offset + target.size
                    THEN ByteAt(leaf, o - target.size)
                    ELSE ByteAt(leaf, o))],
             LAMBDA moved :
            [some |-> TRUE,
             data |-> get_for_item(leaf, target),
             node |-> [r.node EXCEPT !.data = moved, !.data_offset = new_offset]]))))

\* Result: [some |-> BOOLEAN, data |-> bytes removed, node |-> node']
Leaf_remove_at(leaf, idx) ==
    With(remove_item_at(leaf, idx), LAMBDA r :
        IF ~r.some THEN [some |-> FALSE, data |-> <<>>, node |-> leaf]
        ELSE
        With(r.item, LAMBDA target :
        With(leaf.data_offset, LAMBDA start :
        With(target.offset, LAMBDA end :
        With(start + target.size, LAMBDA new_offset :
        With([j \in 1..(BLOCK_SIZE - new_offset) |->
                With(new_offset + j - 1, LAMBDA o :
                    IF o < end + target.size
                    THEN ByteAt(leaf, o - target.size)
                    ELSE ByteAt(leaf, o))],
             LAMBDA moved :
        With([i \in 1..Len(r.node.items) |->
              With(r.node.items[i], LAMBDA it :
                  IF it.offset <= target.offset
                  THEN [it EXCEPT !.offset = it.offset + target.size]
                  ELSE it)],
             LAMBDA shifted :
            [some |-> TRUE,
             data |-> get_for_item(leaf, target),
             node |-> [r.node EXCEPT !.items = shifted,
                                     !.data = moved,
                                     !.data_offset = new_offset]])))))))

\* Leaf::remove that returns the payload and leaves the item in the leaf.
Leaf_remove_keeps_item(leaf, key) ==
    With(get_item_idx(leaf, key), LAMBDA idx :
        IF idx = 0 THEN [some |-> FALSE, data |-> <<>>, node |-> leaf]
        ELSE [some |-> TRUE, data |-> get_for_item(leaf, leaf.items[idx]),
              node |-> leaf])

Leaf_remove(leaf, key) ==
    With(get_item_idx(leaf, key), LAMBDA idx :
        IF idx = 0 THEN [some |-> FALSE, data |-> <<>>, node |-> leaf]
        ELSE Leaf_remove_at(leaf, idx))

Reverse(seq) == [i \in 1..Len(seq) |-> seq[Len(seq) - i + 1]]

\* The loop of rotate_count from its i-th item on.
RECURSIVE RotateCountLoop(_, _, _, _)
RotateCountLoop(items, i, self_used, sibling_used) ==
    IF i > Len(items) THEN 0
    ELSE With(LEAF_ITEM_SIZE + items[i].size, LAMBDA diff :
         With(sibling_used - diff, LAMBDA sib :
         With(self_used + diff, LAMBDA me :
             IF is_deficient(sib) THEN 0
             ELSE IF ~is_deficient(me) THEN i
             ELSE RotateCountLoop(items, i + 1, me, sib))))

rotate_count(self, sibling, items) ==
    RotateCountLoop(items, 1, used_space(self), used_space(sibling))

\* The loop of split_count from its i-th item (of the reversed items) on.
RECURSIVE SplitCountLoop(_, _, _, _, _)
SplitCountLoop(items, i, self_used, right_used, best_imbalance) ==
    IF i > Len(items) THEN 0
    ELSE With(LEAF_ITEM_SIZE + items[i].size, LAMBDA diff :
         With(self_used - diff, LAMBDA me :
         With(right_used + diff, LAMBDA ri :
         With(IF me >= ri THEN me - ri ELSE ri - me, LAMBDA imbalance :
             IF imbalance >= best_imbalance THEN i - 1
             ELSE SplitCountLoop(items, i + 1, me, ri, imbalance)))))

split_count(self) ==
    SplitCountLoop(Reverse(self.items), 1, used_space(self), 0, used_space(self))

\* copy_with_strategy: apply the strategy to the items in order
RECURSIVE CopyBack(_, _, _, _)
CopyBack(self, other, items, i) ==
    IF i > Len(items) THEN self
    ELSE CopyBack(insert_back(self, items[i].key, get_for_item(other, items[i])),
                  other, items, i + 1)

RECURSIVE CopyFront(_, _, _, _)
CopyFront(self, other, items, i) ==
    IF i > Len(items) THEN self
    ELSE CopyFront(insert_front(self, items[i].key, get_for_item(other, items[i])),
                   other, items, i + 1)

RECURSIVE RemoveRepeat(_, _, _)
RemoveRepeat(leaf, idx, n) ==
    IF n = 0 THEN leaf
    ELSE RemoveRepeat(Leaf_remove_at(leaf, idx).node, idx, n - 1)

\* self.take_from_left(left, count): <<self', left'>>
take_from_left(self, left, count) ==
    With(item_count(left) - count, LAMBDA left_new_count :
    With(SubSeq(left.items, left_new_count + 1, item_count(left)), LAMBDA move_items :
        <<CopyFront(self, left, Reverse(move_items), 1),
          RemoveRepeat(left, left_new_count + 1, count)>>))

\* self.take_from_right(right, count): <<self', right'>>
take_from_right(self, right, count) ==
    With(SubSeq(right.items, 1, count), LAMBDA move_items :
        <<CopyBack(self, right, move_items, 1),
          RemoveRepeat(right, 1, count)>>)

\* ------------------------------------------------------------------------
\* Rotate, merge and split, dispatched on the node type (leaf: height 0)
\* Result of a rotation: [err |-> "ok" | "SiblingBecomesDeficient",
\*                        self |-> self', sibling |-> sibling']
\* ------------------------------------------------------------------------
Branch_rotate_left(self, right) ==
    With(ITEM_OCCUPANCY_THRESH - item_count(self), LAMBDA req_count :
    With(item_count(right), LAMBDA right_count :
        IF Max(right_count - req_count, 0) < ITEM_OCCUPANCY_THRESH
        THEN [err |-> "SiblingBecomesDeficient", self |-> self, sibling |-> right]
        ELSE With(take_items_from_right(self, right, req_count), LAMBDA t :
                 [err |-> "ok", self |-> t[1], sibling |-> t[2]])))

Branch_rotate_right(self, left) ==
    With(ITEM_OCCUPANCY_THRESH - item_count(self), LAMBDA req_count :
    With(item_count(left), LAMBDA left_count :
        IF Max(left_count - req_count, 0) < ITEM_OCCUPANCY_THRESH
        THEN [err |-> "SiblingBecomesDeficient", self |-> self, sibling |-> left]
        ELSE With(take_items_from_left(self, left, req_count), LAMBDA t :
                 [err |-> "ok", self |-> t[1], sibling |-> t[2]])))

\* Result of a merge: [err |-> "ok" | "Overflows" | "Panic", self |-> self']
Branch_merge(self, right) ==
    IF item_count(self) + item_count(right) > ITEM_CAPACITY
    THEN [err |-> "Panic", self |-> self]
    ELSE [err |-> "ok", self |-> insert_items_back(self, right.items)]

Leaf_rotate_left(self, right) ==
    With(rotate_count(self, right, right.items), LAMBDA count :
        IF count = 0
        THEN [err |-> "SiblingBecomesDeficient", self |-> self, sibling |-> right]
        ELSE With(take_from_right(self, right, count), LAMBDA t :
                 [err |-> "ok", self |-> t[1], sibling |-> t[2]]))

Leaf_rotate_right(self, left) ==
    With(rotate_count(self, left, Reverse(left.items)), LAMBDA count :
        IF count = 0
        THEN [err |-> "SiblingBecomesDeficient", self |-> self, sibling |-> left]
        ELSE With(take_from_left(self, left, count), LAMBDA t :
                 [err |-> "ok", self |-> t[1], sibling |-> t[2]]))

Leaf_merge(self, right) ==
    With(BLOCK_SIZE - right.data_offset, LAMBDA right_data_size :
        IF ~can_insert(self, item_count(right), right_data_size)
        THEN [err |-> "Overflows", self |-> self]
        ELSE [err |-> "ok", self |-> CopyBack(self, right, right.items, 1)])

rotate_left(self, right) ==
    IF self.height = 0 THEN Leaf_rotate_left(self, right)
    ELSE Branch_rotate_left(self, right)

rotate_right(self, left) ==
    IF self.height = 0 THEN Leaf_rotate_right(self, left)
    ELSE Branch_rotate_right(self, left)

Node_merge(self, right) ==
    IF self.height = 0 THEN Leaf_merge(self, right) ELSE Branch_merge(self, right)

\* self.split(right), right empty: <<self', right'>>
Branch_split(self, right) ==
    With(take_items_from_left(right, self, item_count(self) \div 2), LAMBDA t :
        <<t[2], t[1]>>)

Leaf_split(self, right) ==
    With(take_from_left(right, self, split_count(self)), LAMBDA t :
        <<t[2], t[1]>>)

Node_split(self, right) ==
    IF self.height = 0 THEN Leaf_split(self, right) ELSE Branch_split(self, right)

\* ------------------------------------------------------------------------
\* Bitmap allocator: [bits, count, available, last_cursor]
\* bits[a + 1] is the bit of block a.
\* ------------------------------------------------------------------------
BitmapAllocator_new(block_count) ==
    [bits |-> [i \in 1..block_count |-> FALSE],
     count |-> block_count,
     available |-> block_count,
     last_cursor |-> 0]

\* The loop of find_free over the blocks order[j..], start as in the code.
\* Result: -1 for None, else the start of the run.
RECURSIVE FindFreeLoop(_, _, _, _, _)
FindFreeLoop(al, order, j, start, count) ==
    IF j > Len(order) THEN -1
    ELSE With(order[j], LAMBDA i :
         With(IF i = 0 THEN 0 ELSE start, LAMBDA s :
             IF al.bits[i + 1] THEN FindFreeLoop(al, order, j + 1, i + 1, count)
             ELSE IF (i + 1) - s = count THEN s
             ELSE FindFreeLoop(al, order, j + 1, s, count)))

\* find_free that asks for a run one block longer than requested
find_free_one_more(al, count) ==
    With([j \in 1..(al.count - al.last_cursor) |-> al.last_cursor + j - 1], LAMBDA after_last :
    With([j \in 1..al.last_cursor |-> j - 1], LAMBDA before_last :
        FindFreeLoop(al, after_last \o before_last, 1, al.last_cursor, count + 1)))

find_free(al, count) ==
    With([j \in 1..(al.count - al.last_cursor) |-> al.last_cursor + j - 1], LAMBDA after_last :
    With([j \in 1..al.last_cursor |-> j - 1], LAMBDA before_last :
        FindFreeLoop(al, after_last \o before_last, 1, al.last_cursor, count)))

\* allocate that leaves the last block of the span it returns unmarked
BitmapAllocator_allocate_last_unmarked(al, count) ==
    With(find_free(al, count), LAMBDA start :
        IF start < 0 THEN [err |-> "NoSpace", al |-> al, addr |-> 0]
        ELSE [err |-> "ok",
              al |-> [bits |-> [i \in 1..al.count |->
                                  IF i - 1 >= start /\ i - 1 < start + count - 1
                                  THEN TRUE ELSE al.bits[i]],
                      count |-> al.count,
                      available |-> al.available - count,
                      last_cursor |-> start + count],
              addr |-> start])

\* Result: [err |-> "ok" | "NoSpace", al |-> allocator', addr |-> start]
BitmapAllocator_allocate(al, count) ==
    With(find_free(al, count), LAMBDA start :
        IF start < 0 THEN [err |-> "NoSpace", al |-> al, addr |-> 0]
        ELSE [err |-> "ok",
              al |-> [bits |-> [i \in 1..al.count |->
                                  IF i - 1 >= start /\ i - 1 < start + count
                                  THEN TRUE ELSE al.bits[i]],
                      count |-> al.count,
                      available |-> al.available - count,
                      last_cursor |-> start + count],
              addr |-> start])

\* deallocate that clears one block more than the span
BitmapAllocator_deallocate_one_more(al, start, count) ==
    IF start + count > al.count THEN [err |-> "AddrOutOfBounds", al |-> al]
    ELSE IF \E a \in start..(start + count - 1) : ~al.bits[a + 1]
    THEN [err |-> "NotAllocated", al |-> al]
    ELSE [err |-> "ok",
          al |-> [al EXCEPT !.bits = [i \in 1..al.count |->
                                        IF i - 1 >= start /\ i - 1 <= start + count
                                        THEN FALSE ELSE al.bits[i]],
                            !.available = al.available + count]]

\* deallocate that looks at the first block of the span only
BitmapAllocator_deallocate_first_only(al, start, count) ==
    IF start + count > al.count THEN [err |-> "AddrOutOfBounds", al |-> al]
    ELSE IF count > 0 /\ ~al.bits[start + 1]
    THEN [err |-> "NotAllocated", al |-> al]
    ELSE [err |-> "ok",
          al |-> [al EXCEPT !.bits = [i \in 1..al.count |->
                                        IF i - 1 >= start /\ i - 1 < start + count
                                        THEN FALSE ELSE al.bits[i]],
                            !.available = al.available + count]]

\* Result: [err |-> "ok" | "AddrOutOfBounds" | "NotAllocated", al |-> allocator']
BitmapAllocator_deallocate(al, start, count) ==
    IF start + count > al.count THEN [err |-> "AddrOutOfBounds", al |-> al]
    ELSE IF \E a \in start..(start + count - 1) : ~al.bits[a + 1]
    THEN [err |-> "NotAllocated", al |-> al]
    ELSE [err |-> "ok",
          al |-> [al EXCEPT !.bits = [i \in 1..al.count |->
                                        IF i - 1 >= start /\ i - 1 < start + count
                                        THEN FALSE ELSE al.bits[i]],
                            !.available = al.available + count]]

\* ------------------------------------------------------------------------
\* Storage: [kind |-> "map", blocks] is a MapStorage; [kind |-> "cached",
\* cache, inner] is a CachedStorage over the storage inner.
\* ------------------------------------------------------------------------
MapStorage_new == [kind |-> "map", blocks |-> <<>>]

CachedStorage_new(inner) == [kind |-> "cached", cache |-> <<>>, inner |-> inner]

\* read_at of a buffered storage that does not look into its cache
Storage_read_at_skips_cache(s, addr) ==
    With(IF s.kind = "map" THEN s ELSE s.inner, LAMBDA m :
        IF addr \in DOMAIN m.blocks
        THEN [ok |-> TRUE, block |-> m.blocks[addr]]
        ELSE [ok |-> FALSE, block |-> <<>>])

\* Result: [ok |-> BOOLEAN, block |-> the block read]
RECURSIVE Storage_read_at(_, _)
Storage_read_at(s, addr) ==
    IF s.kind = "map"
    THEN IF addr \in DOMAIN s.blocks
         THEN [ok |-> TRUE, block |-> s.blocks[addr]]
         ELSE [ok |-> FALSE, block |-> <<>>]
    ELSE IF addr \in DOMAIN s.cache
         THEN [ok |-> TRUE, block |-> s.cache[addr]]
         ELSE Storage_read_at(s.inner, addr)

Put(f, k, v) == [x \in DOMAIN f \cup {k} |-> IF x = k THEN v ELSE f[x]]

\* write_at of a buffered storage that writes through to the storage below
Storage_write_at_through(s, block, addr) ==
    IF s.kind = "map"
    THEN [s EXCEPT !.blocks = Put(s.blocks, addr, block)]
    ELSE [s EXCEPT !.inner = [s.inner EXCEPT !.blocks = Put(s.inner.blocks, addr, block)]]

Storage_write_at(s, block, addr) ==
    IF s.kind = "map"
    THEN [s EXCEPT !.blocks = Put(s.blocks, addr, block)]
    ELSE [s EXCEPT !.cache = Put(s.cache, addr, block)]

\* ------------------------------------------------------------------------
\* B+-tree engine.  The operations act on a world w = [storage, alloc] and
\* return the world they leave behind, also when they fail: an error return
\* leaves the writes and allocations made before it.
\* Errors: "Storage", "NoSpace", "NotAllocated", "AddrOutOfBounds",
\* "Occupied", "DataTooLong", "Uninterpretable", and "Panic" for a failed
\* expect, unreachable!() or index out of bounds.
\* ------------------------------------------------------------------------
World(storage, alloc) == [storage |-> storage, alloc |-> alloc]

WriteBlock(w, block, addr) ==
    [w EXCEPT !.storage = Storage_write_at(w.storage, block, addr)]

NoKey == <<>>
NoSplit == [right_lower_bound |-> NoKey, right_addr |-> 0]

\* NodeVariant::try_new / Node::try_new: is the block a tree node?
IsNode(block) == DOMAIN block = {"height", "items", "data_offset", "data"}

\* Result: [err, some, data]
RECURSIVE Tree_get(_, _, _)
Tree_get(storage, root_addr, key) ==
    With(Storage_read_at(storage, root_addr), LAMBDA rd :
        IF ~rd.ok THEN [err |-> "Storage", some |-> FALSE, data |-> <<>>]
        ELSE IF ~IsNode(rd.block)
        THEN [err |-> "Uninterpretable", some |-> FALSE, data |-> <<>>]
        ELSE IF rd.block.height # 0
        THEN IF item_count(rd.block) = 0
             THEN [err |-> "Panic", some |-> FALSE, data |-> <<>>]
             ELSE Tree_get(storage, child_for(rd.block, key), key)
        ELSE With(Leaf_get(rd.block, key), LAMBDA g :
                 [err |-> "ok", some |-> g.some, data |-> g.data]))

\* InsertOutcome: t is "Done", "Split", "LowerBoundChanged",
\* "SplitAndLowerBoundChanged" or "Err"
Outcome(w, t, err, result, lb) ==
    [w |-> w, t |-> t, err |-> err, result |-> result, lower_bound |-> lb]

OutErr(w, err) == Outcome(w, "Err", err, NoSplit, NoKey)
OutDone(w) == Outcome(w, "Done", "ok", NoSplit, NoKey)

\* Result: [w, err, result, node |-> the node after the split]
handle_overflow(w, node, node_addr) ==
    With(BitmapAllocator_allocate(w.alloc, 1), LAMBDA a :
        IF a.err # "ok"
        THEN [w |-> w, err |-> a.err, result |-> NoSplit, node |-> node]
        ELSE
        With([w EXCEPT !.alloc = a.al], LAMBDA w1 :
        With(Node_split(node, Node_format(node.height)), LAMBDA sp :
            IF item_count(sp[2]) = 0
            THEN [w |-> w1, err |-> "Panic", result |-> NoSplit, node |-> sp[1]]
            ELSE [w |-> WriteBlock(WriteBlock(w1, sp[1], node_addr), sp[2], a.addr),
                  err |-> "ok",
                  result |-> [right_lower_bound |-> lower_bound(sp[2]),
                              right_addr |-> a.addr],
                  node |-> sp[1]])))

\* Result: an outcome, with branch |-> the branch after the update
handle_lower_bound_changed(w, branch, branch_addr, child_idx, child_lower_bound) ==
    With(set_key_at(branch, child_idx, child_lower_bound), LAMBDA b :
    With(WriteBlock(w, b, branch_addr), LAMBDA w1 :
        IF lower_bound(b) = child_lower_bound
        THEN [out |-> Outcome(w1, "LowerBoundChanged", "ok", NoSplit, lower_bound(b)),
              branch |-> b]
        ELSE [out |-> OutDone(w1), branch |-> b]))

handle_split_child(w, branch, branch_addr, child_result) ==
    With(Branch_insert(branch, child_result.right_lower_bound,
                       child_result.right_addr),
         LAMBDA ins :
        IF ins.err = "ok" THEN OutDone(WriteBlock(w, ins.node, branch_addr))
        ELSE IF ins.err = "Panic" THEN OutErr(w, "Panic")
        ELSE
        With(handle_overflow(w, branch, branch_addr), LAMBDA ho :
            IF ho.err # "ok" THEN OutErr(ho.w, ho.err)
            ELSE IF KeyLt(child_result.right_lower_bound, ho.result.right_lower_bound)
            THEN With(Branch_insert(ho.node, child_result.right_lower_bound,
                                    child_result.right_addr),
                      LAMBDA i2 :
                     IF i2.err # "ok" THEN OutErr(ho.w, "Panic")
                     ELSE Outcome(WriteBlock(ho.w, i2.node, branch_addr),
                                  "Split", "ok", ho.result, NoKey))
            ELSE With(Storage_read_at(ho.w.storage, ho.result.right_addr), LAMBDA rd :
                     IF ~rd.ok THEN OutErr(ho.w, "Storage")
                     ELSE
                     With(Branch_insert(rd.block, child_result.right_lower_bound,
                                        child_result.right_addr),
                          LAMBDA i2 :
                         IF i2.err # "ok" THEN OutErr(ho.w, "Panic")
                         ELSE Outcome(
                                WriteBlock(ho.w, i2.node, ho.result.right_addr),
                                "Split", "ok",
                                [ho.result EXCEPT
                                    !.right_lower_bound = lower_bound(i2.node)],
                                NoKey)))))

\* leaf is the leaf after the split
handle_split_leaf(w, leaf, leaf_addr, key, data, result) ==
    IF KeyLt(key, result.right_lower_bound)
    THEN With(Leaf_insert(leaf, key, data), LAMBDA ins :
             IF ins.err = "Occupied" THEN OutErr(w, "Occupied")
             ELSE IF ins.err = "Overflow" THEN OutErr(w, "Panic")
             ELSE With(WriteBlock(w, ins.node, leaf_addr), LAMBDA w1 :
                      IF lower_bound(ins.node) = key
                      THEN Outcome(w1, "SplitAndLowerBoundChanged", "ok",
                                   result, lower_bound(ins.node))
                      ELSE Outcome(w1, "Split", "ok", result, NoKey)))
    ELSE With(Storage_read_at(w.storage, result.right_addr), LAMBDA rd :
             IF ~rd.ok THEN OutErr(w, "Storage")
             ELSE
             With(Leaf_insert(rd.block, key, data), LAMBDA ins :
                 IF ins.err = "Occupied" THEN OutErr(w, "Occupied")
                 ELSE IF ins.err = "Overflow" THEN OutErr(w, "Panic")
                 ELSE Outcome(WriteBlock(w, ins.node, result.right_addr),
                              "Split", "ok",
                              [result EXCEPT
                                  !.right_lower_bound = lower_bound(ins.node)],
                              NoKey)))

\* The leaf arm of insert_recursive.
insert_leaf(w, leaf, addr, key, data) ==
    With(Leaf_insert(leaf, key, data), LAMBDA ins :
        IF ins.err = "ok"
        THEN With(WriteBlock(w, ins.node, addr), LAMBDA w1 :
                 IF key = lower_bound(ins.node)
                 THEN Outcome(w1, "LowerBoundChanged", "ok", NoSplit, key)
                 ELSE OutDone(w1))
        ELSE IF ins.err = "Overflow"
        THEN With(handle_overflow(w, leaf, addr), LAMBDA ho :
                 IF ho.err # "ok" THEN OutErr(ho.w, ho.err)
                 ELSE handle_split_leaf(ho.w, ho.node, addr, key, data, ho.result))
        ELSE OutErr(w, "Occupied"))

\* The branch arm of insert_recursive, given the outcome r of the child.
insert_branch(branch, addr, child_idx, r) ==
    CASE r.t = "Err" -> r
      [] r.t = "Done" -> r
      [] r.t = "Split" -> handle_split_child(r.w, branch, addr, r.result)
      [] r.t = "LowerBoundChanged" ->
            handle_lower_bound_changed(r.w, branch, addr, child_idx,
                                       r.lower_bound).out
      [] r.t = "SplitAndLowerBoundChanged" ->
            With(handle_lower_bound_changed(r.w, branch, addr, child_idx,
                                            r.lower_bound),
                 LAMBDA lb :
            With(handle_split_child(lb.out.w, lb.branch, addr, r.result), LAMBDA sp :
                IF sp.t = "Err" THEN sp
                ELSE IF lb.out.t = "Done" THEN sp
                ELSE IF sp.t = "Done"
                THEN Outcome(sp.w, "LowerBoundChanged", "ok", NoSplit,
                             lb.out.lower_bound)
                ELSE Outcome(sp.w, "SplitAndLowerBoundChanged", "ok", sp.result,
                             lb.out.lower_bound)))

RECURSIVE insert_recursive(_, _, _, _)
insert_recursive(w, addr, key, data) ==
    With(Storage_read_at(w.storage, addr), LAMBDA rd :
        IF ~rd.ok THEN OutErr(w, "Storage")
        ELSE IF ~IsNode(rd.block) THEN OutErr(w, "Uninterpretable")
        ELSE IF rd.block.height # 0
        THEN With(rd.block, LAMBDA branch :
             With(child_idx_for(branch, key), LAMBDA child_idx :
             With(child_at(branch, child_idx), LAMBDA child :
                 IF ~child.some THEN OutErr(w, "Panic")
                 ELSE insert_branch(branch, addr, child_idx,
                                    insert_recursive(w, child.addr, key, data)))))
        ELSE insert_leaf(w, rd.block, addr, key, data))

\* handle_split_root that formats the new root at the height of the old one.
handle_split_root_same_height(w, root_addr, result) ==
    With(Storage_read_at(w.storage, root_addr), LAMBDA rd :
    With(BitmapAllocator_allocate(w.alloc, 1), LAMBDA a :
    With(Branch_insert(Node_format(Max(rd.block.height, 1)),
                       lower_bound(rd.block), root_addr),
         LAMBDA i1 :
    With(Branch_insert(i1.node, result.right_lower_bound, result.right_addr), LAMBDA i2 :
        IF a.err # "ok" THEN [w |-> w, root_addr |-> root_addr, err |-> a.err]
        ELSE [w |-> WriteBlock([w EXCEPT !.alloc = a.al], i2.node, a.addr),
              root_addr |-> a.addr, err |-> "ok"]))))

\* Result: [w, root_addr, err]
handle_split_root(w, root_addr, result) ==
    With(Storage_read_at(w.storage, root_addr), LAMBDA rd :
        IF ~rd.ok THEN [w |-> w, root_addr |-> root_addr, err |-> "Storage"]
        ELSE IF ~IsNode(rd.block)
        THEN [w |-> w, root_addr |-> root_addr, err |-> "Uninterpretable"]
        ELSE IF item_count(rd.block) = 0
        THEN [w |-> w, root_addr |-> root_addr, err |-> "Panic"]
        ELSE
        With(BitmapAllocator_allocate(w.alloc, 1), LAMBDA a :
            IF a.err # "ok" THEN [w |-> w, root_addr |-> root_addr, err |-> a.err]
            ELSE
            With(Branch_insert(Node_format(rd.block.height + 1),
                               lower_bound(rd.block), root_addr),
                 LAMBDA i1 :
            With(Branch_insert(i1.node, result.right_lower_bound,
                               result.right_addr),
                 LAMBDA i2 :
            With([w EXCEPT !.alloc = a.al], LAMBDA w1 :
                IF i1.err # "ok" \/ i2.err # "ok"
                THEN [w |-> w1, root_addr |-> root_addr, err |-> "Panic"]
                ELSE [w |-> WriteBlock(w1, i2.node, a.addr),
                      root_addr |-> a.addr, err |-> "ok"])))))

Tree_insert(w, root_addr, key, data) ==
    IF Len(data) > DATA_MAX_LEN
    THEN [w |-> w, root_addr |-> root_addr, err |-> "DataTooLong"]
    ELSE With(insert_recursive(w, root_addr, key, data), LAMBDA r :
             CASE r.t = "Err" -> [w |-> r.w, root_addr |-> root_addr, err |-> r.err]
               [] r.t \in {"Done", "LowerBoundChanged"} ->
                     [w |-> r.w, root_addr |-> root_addr, err |-> "ok"]
               [] r.t \in {"Split", "SplitAndLowerBoundChanged"} ->
                     handle_split_root(r.w, root_addr, r.result))

\* merge that deallocates the left block, which stays in the tree
Tree_merge_frees_left(w, parent, parent_addr, left, left_addr, right, right_addr, right_idx) ==
    With(Node_merge(left, right), LAMBDA m :
        IF m.err = "Overflows"
        THEN [w |-> w, err |-> "ok", done |-> FALSE, parent |-> parent]
        ELSE IF m.err = "Panic" \/ right_idx > item_count(parent)
        THEN [w |-> w, err |-> "Panic", done |-> FALSE, parent |-> parent]
        ELSE
        With(Branch_remove_at(parent, right_idx), LAMBDA p :
        With(WriteBlock(WriteBlock(w, m.self, left_addr), p, parent_addr), LAMBDA w1 :
        With(BitmapAllocator_deallocate(w1.alloc, left_addr, 1), LAMBDA d :
            IF d.err # "ok"
            THEN [w |-> w1, err |-> d.err, done |-> FALSE, parent |-> p]
            ELSE [w |-> [w1 EXCEPT !.alloc = d.al], err |-> "ok", done |-> TRUE,
                  parent |-> p]))))

\* Result of merge and rotate: [w, err, done |-> the Ok(bool), parent |-> parent']
Tree_merge(w, parent, parent_addr, left, left_addr, right, right_addr, right_idx) ==
    With(Node_merge(left, right), LAMBDA m :
        IF m.err = "Overflows"
        THEN [w |-> w, err |-> "ok", done |-> FALSE, parent |-> parent]
        ELSE IF m.err = "Panic" \/ right_idx > item_count(parent)
        THEN [w |-> w, err |-> "Panic", done |-> FALSE, parent |-> parent]
        ELSE
        With(Branch_remove_at(parent, right_idx), LAMBDA p :
        With(WriteBlock(WriteBlock(w, m.self, left_addr), p, parent_addr), LAMBDA w1 :
        With(BitmapAllocator_deallocate(w1.alloc, right_addr, 1), LAMBDA d :
            IF d.err # "ok"
            THEN [w |-> w1, err |-> d.err, done |-> FALSE, parent |-> p]
            ELSE [w |-> [w1 EXCEPT !.alloc = d.al], err |-> "ok", done |-> TRUE,
                  parent |-> p]))))

\* side is "Left" when left is the deficient node, "Right" when right is
Tree_rotate(w, parent, parent_addr, left, left_addr, right, right_addr, right_idx, side) ==
    With(IF side = "Left" THEN rotate_left(left, right)
         ELSE rotate_right(right, left),
         LAMBDA r :
    With(IF side = "Left" THEN r.self ELSE r.sibling, LAMBDA left1 :
    With(IF side = "Left" THEN r.sibling ELSE r.self, LAMBDA right1 :
        IF r.err = "SiblingBecomesDeficient"
        THEN Tree_merge(w, parent, parent_addr, left, left_addr, right, right_addr,
                        right_idx)
        ELSE IF item_count(right1) = 0 \/ right_idx > item_count(parent)
        THEN [w |-> w, err |-> "Panic", done |-> FALSE, parent |-> parent]
        ELSE
        With(set_key_at(parent, right_idx, lower_bound(right1)), LAMBDA p :
            [w |-> WriteBlock(WriteBlock(WriteBlock(w, left1, left_addr),
                                         right1, right_addr), p, parent_addr),
             err |-> "ok", done |-> TRUE, parent |-> p]))))

\* Result: [w, err, parent |-> parent']
handle_deficient_left(w, parent, parent_addr, child, child_addr, child_idx) ==
    With(child_idx - 1, LAMBDA left_idx :
    With(child_at(parent, left_idx), LAMBDA left_addr :
        IF ~left_addr.some THEN [w |-> w, err |-> "ok", parent |-> parent]
        ELSE
        With(Storage_read_at(w.storage, left_addr.addr), LAMBDA rd :
            IF ~rd.ok THEN [w |-> w, err |-> "Storage", parent |-> parent]
            ELSE IF ~IsNode(rd.block)
            THEN [w |-> w, err |-> "Uninterpretable", parent |-> parent]
            ELSE With(Tree_rotate(w, parent, parent_addr, rd.block,
                                  left_addr.addr, child, child_addr, child_idx,
                                  "Right"),
                      LAMBDA r :
                     [w |-> r.w, err |-> r.err, parent |-> r.parent]))))

handle_deficient(w, parent, parent_addr, child, child_addr, child_idx) ==
    With(child_idx + 1, LAMBDA right_idx :
    With(child_at(parent, right_idx), LAMBDA right_addr :
        IF ~right_addr.some
        THEN handle_deficient_left(w, parent, parent_addr, child, child_addr,
                                   child_idx)
        ELSE
        With(Storage_read_at(w.storage, right_addr.addr), LAMBDA rd :
            IF ~rd.ok THEN [w |-> w, err |-> "Storage", parent |-> parent]
            ELSE IF ~IsNode(rd.block)
            THEN [w |-> w, err |-> "Uninterpretable", parent |-> parent]
            ELSE With(Tree_rotate(w, parent, parent_addr, child, child_addr,
                                  rd.block, right_addr.addr, right_idx, "Left"),
                      LAMBDA r :
                     IF r.err # "ok" \/ r.done
                     THEN [w |-> r.w, err |-> r.err, parent |-> r.parent]
                     ELSE handle_deficient_left(w, parent, parent_addr, child,
                                                child_addr, child_idx)))))

\* RemoveOutcome: t is "Done", "BecameDeficient" or "Err"; some/data is the
\* Option of the removed bytes.
RemOut(w, t, err, some, data) ==
    [w |-> w, t |-> t, err |-> err, some |-> some, data |-> data]

\* The branch arm of remove_recursive, given the outcome r of the child.
remove_branch(branch, root_addr, child_idx, child_addr, r) ==
    IF r.t = "Err" THEN r
    ELSE IF r.t = "Done"
    THEN RemOut(r.w, IF Node_is_deficient(branch) THEN "BecameDeficient" ELSE "Done",
                "ok", r.some, r.data)
    ELSE
    With(Storage_read_at(r.w.storage, child_addr), LAMBDA rd :
        IF ~rd.ok THEN RemOut(r.w, "Err", "Storage", FALSE, <<>>)
        ELSE IF ~IsNode(rd.block) THEN RemOut(r.w, "Err", "Uninterpretable", FALSE, <<>>)
        ELSE
        With(handle_deficient(r.w, branch, root_addr, rd.block, child_addr,
                              child_idx),
             LAMBDA h :
            IF h.err # "ok" THEN RemOut(h.w, "Err", h.err, FALSE, <<>>)
            ELSE RemOut(h.w,
                        IF Node_is_deficient(h.parent) THEN "BecameDeficient"
                        ELSE "Done",
                        "ok", r.some, r.data)))

RECURSIVE remove_recursive(_, _, _)
remove_recursive(w, root_addr, key) ==
    With(Storage_read_at(w.storage, root_addr), LAMBDA rd :
        IF ~rd.ok THEN RemOut(w, "Err", "Storage", FALSE, <<>>)
        ELSE IF ~IsNode(rd.block) THEN RemOut(w, "Err", "Uninterpretable", FALSE, <<>>)
        ELSE IF rd.block.height # 0
        THEN With(rd.block, LAMBDA branch :
             With(child_idx_for(branch, key), LAMBDA child_idx :
             With(child_at(branch, child_idx), LAMBDA child :
                 IF ~child.some THEN RemOut(w, "Err", "Panic", FALSE, <<>>)
                 ELSE remove_branch(branch, root_addr, child_idx, child.addr,
                                    remove_recursive(w, child.addr, key)))))
        ELSE With(Leaf_remove(rd.block, key), LAMBDA rm :
                 RemOut(WriteBlock(w, rm.node, root_addr),
                        IF Node_is_deficient(rm.node) THEN "BecameDeficient"
                        ELSE "Done",
                        "ok", rm.some, rm.data)))

\* handle_deficient_root that moves the root to the single child and keeps
\* the old root block allocated
handle_deficient_root_keeps_block(w, root_addr) ==
    With(Storage_read_at(w.storage, root_addr), LAMBDA rd :
        IF ~rd.ok THEN [w |-> w, root_addr |-> root_addr, err |-> "Storage"]
        ELSE IF ~IsNode(rd.block)
        THEN [w |-> w, root_addr |-> root_addr, err |-> "Uninterpretable"]
        ELSE IF rd.block.height # 0 /\ item_count(rd.block) = 1
        THEN [w |-> w, root_addr |-> child_at(rd.block, 1).addr, err |-> "ok"]
        ELSE [w |-> w, root_addr |-> root_addr, err |-> "ok"])

\* Result: [w, root_addr, err]
handle_deficient_root(w, root_addr) ==
    With(Storage_read_at(w.storage, root_addr), LAMBDA rd :
        IF ~rd.ok THEN [w |-> w, root_addr |-> root_addr, err |-> "Storage"]
        ELSE IF ~IsNode(rd.block)
        THEN [w |-> w, root_addr |-> root_addr, err |-> "Uninterpretable"]
        ELSE IF rd.block.height # 0 /\ item_count(rd.block) = 1
        THEN With(BitmapAllocator_deallocate(w.alloc, root_addr, 1), LAMBDA d :
                 IF d.err # "ok"
                 THEN [w |-> w, root_addr |-> root_addr, err |-> d.err]
                 ELSE [w |-> [w EXCEPT !.alloc = d.al],
                       root_addr |-> child_at(rd.block, 1).addr, err |-> "ok"])
        ELSE [w |-> w, root_addr |-> root_addr, err |-> "ok"])

\* Result: [w, root_addr, err, some, data]
Tree_remove(w, root_addr, key) ==
    With(remove_recursive(w, root_addr, key), LAMBDA r :
        IF r.t = "Err"
        THEN [w |-> r.w, root_addr |-> root_addr, err |-> r.err,
              some |-> FALSE, data |-> <<>>]
        ELSE IF r.t = "Done"
        THEN [w |-> r.w, root_addr |-> root_addr, err |-> "ok",
              some |-> r.some, data |-> r.data]
        ELSE With(handle_deficient_root(r.w, root_addr), LAMBDA h :
                 [w |-> h.w, root_addr |-> h.root_addr, err |-> h.err,
                  some |-> IF h.err = "ok" THEN r.some ELSE FALSE,
                  data |-> IF h.err = "ok" THEN r.data ELSE <<>>]))

\* Tree::try_insert: Tree::insert with Occupied treated as success.
Tree_try_insert(w, root_addr, key, data) ==
    With(Tree_insert(w, root_addr, key, data), LAMBDA r :
        IF r.err = "Occupied" THEN [r EXCEPT !.err = "ok"] ELSE r)

\* Tree::get_le: the descent of Tree::get, ended by Leaf::get_le.
\* Result: [err, some, key, data]
RECURSIVE Tree_get_le(_, _, _)
Tree_get_le(storage, root_addr, key) ==
    With(Storage_read_at(storage, root_addr), LAMBDA rd :
        IF ~rd.ok THEN [err |-> "Storage", some |-> FALSE, key |-> NoKey, data |-> <<>>]
        ELSE IF ~IsNode(rd.block)
        THEN [err |-> "Uninterpretable", some |-> FALSE, key |-> NoKey, data |-> <<>>]
        ELSE IF rd.block.height # 0
        THEN IF item_count(rd.block) = 0
             THEN [err |-> "Panic", some |-> FALSE, key |-> NoKey, data |-> <<>>]
             ELSE Tree_get_le(storage, child_for(rd.block, key), key)
        ELSE With(Leaf_get_le(rd.block, key), LAMBDA g :
                 [err |-> "ok", some |-> g.some, key |-> g.key, data |-> g.data]))

\* ------------------------------------------------------------------------
\* Bytes.  Integers are stored little-endian; a block that is no tree node
\* is [bytes |-> its BLOCK_SIZE bytes].
\* ------------------------------------------------------------------------
Zeros(n) == [i \in 1..n |-> 0]

\* The n little-endian bytes of v (U16, U32, U64 of zerocopy::little_endian).
RECURSIVE LE(_, _)
LE(v, n) == IF n = 0 THEN <<>> ELSE <<v % 256>> \o LE(v \div 256, n - 1)

RECURSIVE FromLE(_)
FromLE(bytes) ==
    IF bytes = <<>> THEN 0 ELSE bytes[1] + 256 * FromLE(Tail(bytes))

Key_as_bytes(key) == LE(key[1], 8) \o <<key[2]>> \o LE(key[3], 8)

RECURSIVE Items_as_bytes(_, _)
Items_as_bytes(items, height) ==
    IF items = <<>> THEN <<>>
    ELSE With(Head(items), LAMBDA it :
             (IF height = 0
              THEN Key_as_bytes(it.key) \o LE(it.offset, 2) \o LE(it.size, 2)
              ELSE Key_as_bytes(it.key) \o LE(it.child, 8))
             \o Items_as_bytes(Tail(items), height))

\* Block::new: data, zero-padded to a block.
Block_new(data) == [bytes |-> data \o Zeros(BLOCK_SIZE - Len(data))]

Block_default == Block_new(<<>>)

\* Block.data: the bytes of a block.  For a block last written as a tree
\* node these are the header, the item array and the payload area; the gap
\* between them reads as zero.
Block_data(block) ==
    IF IsNode(block)
    THEN With(LE(block.height, 2) \o LE(Len(block.items), 2)
              \o LE(block.data_offset, 2)
              \o Items_as_bytes(block.items, block.height),
              LAMBDA head :
             head \o Zeros(block.data_offset - Len(head)) \o block.data)
    ELSE block.bytes

\* ------------------------------------------------------------------------
\* Superblock (src/fs/superblock.rs) and the allocator's on-disk form
\* ------------------------------------------------------------------------
\* b"greinafs"
SIGNATURE == <<103, 114, 101, 105, 110, 97, 102, 115>>

SUPER_ADDR == 0

Superblock_new(block_count) ==
    With(DivCeil(block_count, 8), LAMBDA block_alloc_bytes :
    With(DivCeil(block_alloc_bytes, BLOCK_SIZE), LAMBDA block_alloc_blocks :
        [signature |-> SIGNATURE,
         block_count |-> block_count,
         next_node_id |-> 1,
         block_alloc_start |-> 1,
         root_addr |-> 1 + block_alloc_blocks]))

\* allocate_node that leaves next_node_id as it is
allocate_node_keeps_next(sb) == [sb |-> sb, id |-> sb.next_node_id]

\* Result: [sb |-> superblock', id |-> the node id]
allocate_node(sb) ==
    [sb |-> [sb EXCEPT !.next_node_id = sb.next_node_id + 1],
     id |-> sb.next_node_id]

\* IntoBytes of the repr(C) struct
Superblock_as_bytes(sb) ==
    sb.signature \o LE(sb.block_count, 8) \o LE(sb.next_node_id, 8)
    \o LE(sb.block_alloc_start, 8) \o LE(sb.root_addr, 8)

\* BitmapAllocator::as_bytes: the raw u64 words of the Lsb0 bit vector.
BitmapAllocator_as_bytes(al) ==
    LET bit(k) == IF k < al.count /\ al.bits[k + 1] THEN 1 ELSE 0 IN
        [j \in 1..(8 * DivCeil(al.count, 64)) |->
            bit(8 * (j - 1)) + 2 * bit(8 * (j - 1) + 1)
            + 4 * bit(8 * (j - 1) + 2) + 8 * bit(8 * (j - 1) + 3)
            + 16 * bit(8 * (j - 1) + 4) + 32 * bit(8 * (j - 1) + 5)
            + 64 * bit(8 * (j - 1) + 6) + 128 * bit(8 * (j - 1) + 7)]

\* from_bytes that counts the zeros of all the bits of the words
BitmapAllocator_from_bytes_all_zeros(count, bytes) ==
    LET bit(k) == (bytes[(k \div 8) + 1] \div (2 ^ (k % 8))) % 2 IN
        [bits |-> [i \in 1..count |-> bit(i - 1) = 1],
         count |-> count,
         available |-> Cardinality({k \in 0..(8 * Len(bytes) - 1) : bit(k) = 0}),
         last_cursor |-> 0]

\* BitmapAllocator::from_bytes: the bytes are little-endian u64 words, bit k
\* of the bitmap is bit k % 8 of byte k / 8 (Lsb0). Only the first count bits
\* are ever looked at, so the model keeps these. The byte length is a
\* multiple of 8 (ref_from_bytes panics otherwise).
BitmapAllocator_from_bytes(count, bytes) ==
    LET bit(k) == (bytes[(k \div 8) + 1] \div (2 ^ (k % 8))) % 2 IN
        [bits |-> [i \in 1..count |-> bit(i - 1) = 1],
         count |-> count,
         available |-> Cardinality({k \in 0..(count - 1) : bit(k) = 0}),
         last_cursor |-> 0]

\* Filesystem::write_superblock
write_superblock(storage, sb) ==
    Storage_write_at(storage, Block_new(Superblock_as_bytes(sb)), SUPER_ADDR)

\* The loop of write_block_alloc over the whole chunks, then the remainder.
RECURSIVE WriteChunks(_, _, _)
WriteChunks(storage, bytes, addr) ==
    IF Len(bytes) >= BLOCK_SIZE
    THEN WriteChunks(Storage_write_at(storage, [bytes |-> SubSeq(bytes, 1, BLOCK_SIZE)], addr),
                     SubSeq(bytes, BLOCK_SIZE + 1, Len(bytes)), addr + 1)
    ELSE IF bytes # <<>> THEN Storage_write_at(storage, Block_new(bytes), addr)
    ELSE storage

\* Filesystem::write_block_alloc
write_block_alloc(storage, sb, al) ==
    WriteChunks(storage, BitmapAllocator_as_bytes(al), sb.block_alloc_start)

\* ------------------------------------------------------------------------
\* Filesystem objects (src/fs/node).  The operations act on a context
\* c = [storage, alloc, sb]: the storage, the block allocator and the
\* superblock the caller hands in.  Like the tree operations they return the
\* context they leave behind, also when they fail.
\* ------------------------------------------------------------------------
Ctx(storage, alloc, sb) == [storage |-> storage, alloc |-> alloc, sb |-> sb]

\* The context after a tree operation with result r (&mut superblock.root_addr)
AfterTree(c, r) ==
    [storage |-> r.w.storage, alloc |-> r.w.alloc,
     sb |-> [c.sb EXCEPT !.root_addr = r.root_addr]]

CtxWorld(c) == World(c.storage, c.alloc)

FT_File == 0
FT_Dir == 1
FT_Symlink == 2

\* NodeId::ROOT
ROOT == 1

NODE_SIZE == 13
EXTENT_SIZE == 16

FsNode_new(filetype, links) == [size |-> 0, filetype |-> filetype, links |-> links]

FsNode_as_bytes(node) == LE(node.size, 8) \o <<node.filetype>> \o LE(node.links, 4)

\* Node::try_read_from_bytes.  Result: [ok, node]
FsNode_try_read_from_bytes(bytes) ==
    IF Len(bytes) = NODE_SIZE /\ bytes[9] \in {FT_File, FT_Dir, FT_Symlink}
    THEN [ok |-> TRUE,
          node |-> [size |-> FromLE(SubSeq(bytes, 1, 8)),
                    filetype |-> bytes[9],
                    links |-> FromLE(SubSeq(bytes, 10, 13))]]
    ELSE [ok |-> FALSE, node |-> FsNode_new(FT_File, 0)]

\* Node::create.  Result: [c, err, id]
FsNode_create(c, filetype, links) ==
    With(allocate_node(c.sb), LAMBDA a :
    With([c EXCEPT !.sb = a.sb], LAMBDA c1 :
    With(Tree_try_insert(CtxWorld(c1), c1.sb.root_addr, Key_new(a.id, DT_Node, 0),
                         FsNode_as_bytes(FsNode_new(filetype, links))),
         LAMBDA r :
        [c |-> AfterTree(c1, r), err |-> r.err, id |-> a.id])))

\* Node::read.  Result: [err, node]
FsNode_read(storage, sb, id) ==
    With(Tree_get(storage, sb.root_addr, Key_new(id, DT_Node, 0)), LAMBDA g :
    With(FsNode_try_read_from_bytes(g.data), LAMBDA p :
        IF g.err # "ok" THEN [err |-> g.err, node |-> FsNode_new(FT_File, 0)]
        ELSE IF ~g.some THEN [err |-> "NodeNotFound", node |-> FsNode_new(FT_File, 0)]
        ELSE IF ~p.ok THEN [err |-> "Uninterpretable", node |-> FsNode_new(FT_File, 0)]
        ELSE [err |-> "ok", node |-> p.node]))

\* Node::write.  Result: [c, err]
FsNode_write(c, node, id) ==
    With(Tree_insert(CtxWorld(c), c.sb.root_addr, Key_new(id, DT_Node, 0),
                     FsNode_as_bytes(node)),
         LAMBDA r :
        [c |-> AfterTree(c, r), err |-> r.err])

Extent_new(start, len) == [start |-> start, len |-> len]

Extent_as_bytes(ext) == LE(ext.start, 8) \o LE(ext.len, 8)

\* Extent::read_from_bytes.  Result: [ok, ext]
Extent_read_from_bytes(bytes) ==
    IF Len(bytes) = EXTENT_SIZE
    THEN [ok |-> TRUE,
          ext |-> Extent_new(FromLE(SubSeq(bytes, 1, 8)), FromLE(SubSeq(bytes, 9, 16)))]
    ELSE [ok |-> FALSE, ext |-> Extent_new(0, 0)]

NoMap == [some |-> FALSE, start |-> 0, len |-> 0, inner |-> Extent_new(0, 0)]

\* MappedExtent::read.  Result: [err, some, start, len, inner]
MappedExtent_read(storage, sb, id, offset) ==
    With(Tree_get_le(storage, sb.root_addr, Key_new(id, DT_Extent, offset)), LAMBDA g :
    With(Extent_read_from_bytes(g.data), LAMBDA p :
    With(p.ext.len * BLOCK_SIZE, LAMBDA len :
        IF g.err # "ok" THEN NoMap @@ [err |-> g.err]
        ELSE IF ~g.some THEN NoMap @@ [err |-> "ok"]
        ELSE IF g.key[1] # id \/ g.key[2] # DT_Extent THEN NoMap @@ [err |-> "ok"]
        ELSE IF ~p.ok THEN NoMap @@ [err |-> "Uninterpretable"]
        ELSE IF offset < g.key[3] + len
        THEN [err |-> "ok", some |-> TRUE, start |-> g.key[3], len |-> len,
              inner |-> p.ext]
        ELSE NoMap @@ [err |-> "ok"])))

\* MappedExtent::ensure.  Result: [c, err, start, len, inner]
MappedExtent_ensure(c, id, offset, len) ==
    With(MappedExtent_read(c.storage, c.sb, id, offset), LAMBDA m :
    With((offset \div BLOCK_SIZE) * BLOCK_SIZE, LAMBDA start :
    With(DivCeil(offset + len - start, BLOCK_SIZE), LAMBDA ext_len :
    With(BitmapAllocator_allocate(c.alloc, ext_len), LAMBDA a :
    With(Extent_new(a.addr, ext_len), LAMBDA ext :
    With([c EXCEPT !.alloc = a.al], LAMBDA c1 :
    With(Tree_try_insert(CtxWorld(c1), c1.sb.root_addr,
                         Key_new(id, DT_Extent, start), Extent_as_bytes(ext)),
         LAMBDA r :
        IF m.err # "ok"
        THEN [c |-> c, err |-> m.err, start |-> 0, len |-> 0, inner |-> m.inner]
        ELSE IF m.some
        THEN [c |-> c, err |-> "ok", start |-> m.start, len |-> m.len, inner |-> m.inner]
        ELSE IF a.err # "ok"
        THEN [c |-> c, err |-> a.err, start |-> 0, len |-> 0, inner |-> m.inner]
        ELSE [c |-> AfterTree(c1, r), err |-> r.err, start |-> start,
              len |-> ext_len * BLOCK_SIZE, inner |-> ext])))))))

\* The inner loop of File::write_at: the chunks of buf that fall into the
\* extent map.  Result: [storage, err, offset, buf]
RECURSIVE WriteChunksOfExtent(_, _, _, _, _, _, _)
WriteChunksOfExtent(storage, map, offset, buf, remain_in_ext, block_idx, offset_in_block) ==
    IF remain_in_ext = 0
    THEN [storage |-> storage, err |-> "ok", offset |-> offset, buf |-> buf]
    ELSE With(map.inner.start + block_idx, LAMBDA addr :
         With(Min(BLOCK_SIZE - offset_in_block, remain_in_ext), LAMBDA chunk_size :
         With(Storage_read_at(storage, addr), LAMBDA rd :
         With(IF chunk_size # BLOCK_SIZE THEN Block_data(rd.block) ELSE Zeros(BLOCK_SIZE), LAMBDA old :
         With([bytes |-> [i \in 1..BLOCK_SIZE |->
                  IF i > offset_in_block /\ i <= offset_in_block + chunk_size
                  THEN buf[i - offset_in_block] ELSE old[i]]],
              LAMBDA block :
             IF chunk_size # BLOCK_SIZE /\ ~rd.ok
             THEN [storage |-> storage, err |-> "Storage", offset |-> offset, buf |-> buf]
             ELSE WriteChunksOfExtent(Storage_write_at(storage, block, addr), map,
                                      offset + chunk_size,
                                      SubSeq(buf, chunk_size + 1, Len(buf)),
                                      remain_in_ext - chunk_size, block_idx + 1, 0))))))

\* The outer loop of File::write_at.  Result: [c, err, offset]
RECURSIVE WriteExtents(_, _, _, _)
WriteExtents(c, id, offset, buf) ==
    IF buf = <<>> THEN [c |-> c, err |-> "ok", offset |-> offset]
    ELSE With(MappedExtent_ensure(c, id, offset, Len(buf)), LAMBDA map :
         With(Min(map.start + map.len - offset, Len(buf)), LAMBDA remain_in_ext :
         With(offset - map.start, LAMBDA offset_in_ext :
         With(WriteChunksOfExtent(map.c.storage, map, offset, buf, remain_in_ext,
                                  offset_in_ext \div BLOCK_SIZE,
                                  offset_in_ext % BLOCK_SIZE),
              LAMBDA w :
             IF map.err # "ok" THEN [c |-> map.c, err |-> map.err, offset |-> offset]
             ELSE IF w.err # "ok"
             THEN [c |-> [map.c EXCEPT !.storage = w.storage], err |-> w.err,
                   offset |-> w.offset]
             ELSE WriteExtents([map.c EXCEPT !.storage = w.storage], id, w.offset, w.buf)))))

\* File::write_at.  Result: [c, err, written]
File_write_at(c, id, offset, buf) ==
    With(FsNode_read(c.storage, c.sb, id), LAMBDA n :
    With(WriteExtents(c, id, offset, buf), LAMBDA w :
    With(FsNode_write(w.c, [n.node EXCEPT !.size = w.offset], id), LAMBDA nw :
        IF n.err # "ok" THEN [c |-> c, err |-> n.err, written |-> 0]
        ELSE IF w.err # "ok" THEN [c |-> w.c, err |-> w.err, written |-> 0]
        ELSE IF w.offset > n.node.size
        THEN [c |-> nw.c, err |-> nw.err,
              written |-> IF nw.err = "ok" THEN w.offset - offset ELSE 0]
        ELSE [c |-> w.c, err |-> "ok", written |-> w.offset - offset])))

\* The inner loop of File::read_at.  Result: [err, out, offset]
RECURSIVE ReadChunksOfExtent(_, _, _, _, _, _, _)
ReadChunksOfExtent(storage, map, offset, out, remain_in_ext, block_idx, offset_in_block) ==
    IF remain_in_ext = 0 THEN [err |-> "ok", out |-> out, offset |-> offset]
    ELSE With(map.inner.start + block_idx, LAMBDA addr :
         With(Min(BLOCK_SIZE - offset_in_block, remain_in_ext), LAMBDA chunk_size :
         With(Storage_read_at(storage, addr), LAMBDA rd :
             IF ~rd.ok THEN [err |-> "Storage", out |-> out, offset |-> offset]
             ELSE ReadChunksOfExtent(storage, map, offset + chunk_size,
                      out \o SubSeq(Block_data(rd.block), offset_in_block + 1,
                                    offset_in_block + chunk_size),
                      remain_in_ext - chunk_size, block_idx + 1, 0))))

\* The outer loop of File::read_at: remain bytes are still to be read.
\* Result: [err, out]
RECURSIVE ReadExtents(_, _, _, _, _, _)
ReadExtents(storage, sb, id, offset, remain, out) ==
    IF remain = 0 THEN [err |-> "ok", out |-> out]
    ELSE With(MappedExtent_read(storage, sb, id, offset), LAMBDA map :
         With(Min(map.start + map.len - offset, remain), LAMBDA remain_in_ext :
         With(offset - map.start, LAMBDA offset_in_ext :
         With(ReadChunksOfExtent(storage, map, offset, out, remain_in_ext,
                                 offset_in_ext \div BLOCK_SIZE,
                                 offset_in_ext % BLOCK_SIZE),
              LAMBDA r :
         With(Min(BLOCK_SIZE - (offset % BLOCK_SIZE), remain), LAMBDA hole :
             IF map.err # "ok" THEN [err |-> map.err, out |-> out]
             ELSE IF map.some
             THEN IF r.err # "ok" THEN [err |-> r.err, out |-> r.out]
                  ELSE ReadExtents(storage, sb, id, r.offset,
                                   remain - (r.offset - offset), r.out)
             ELSE ReadExtents(storage, sb, id, offset + hole, remain - hole,
                              out \o Zeros(hole)))))))

\* File::read_at with a buffer of len bytes.  Result: [err, read, out]: out
\* is the filled prefix of the buffer.
File_read_at(storage, sb, id, offset, len) ==
    With(FsNode_read(storage, sb, id), LAMBDA n :
    With(ReadExtents(storage, sb, id, offset, Min(n.node.size - offset, len), <<>>), LAMBDA r :
        IF n.err # "ok" THEN [err |-> n.err, read |-> 0, out |-> <<>>]
        ELSE IF offset >= n.node.size THEN [err |-> "ok", read |-> 0, out |-> <<>>]
        ELSE [err |-> r.err, read |-> IF r.err = "ok" THEN Len(r.out) ELSE 0,
              out |-> r.out]))

\* ------------------------------------------------------------------------
\* Directory entries (src/fs/node/dir.rs).  Names are byte strings.
\* ------------------------------------------------------------------------
\* Offsets of keys are u64 in the source; the model scales the width down.
U64_MAX == 4095
NAME_MAX_LEN == 7
FNV_OFFSET_BASIS == 805
FNV_PRIME == 435

\* Bitwise exclusive or of two naturals
RECURSIVE Xor(_, _)
Xor(a, b) ==
    IF a = 0 THEN b ELSE IF b = 0 THEN a
    ELSE ((a + b) % 2) + 2 * Xor(a \div 2, b \div 2)

\* hash::fnv_hash: FNV-1a, in the scaled width
RECURSIVE FnvLoop(_, _)
FnvLoop(h, bytes) ==
    IF bytes = <<>> THEN h
    ELSE FnvLoop((Xor(h, Head(bytes)) * FNV_PRIME) % (U64_MAX + 1), Tail(bytes))

fnv_hash(bytes) == FnvLoop(FNV_OFFSET_BASIS % (U64_MAX + 1), bytes)

\* "." and ".."
DirEntryName_itself == <<46>>
DirEntryName_parent == <<46, 46>>

\* DirEntryName::try_from(&str): is the name one a caller may present?
DirEntryName_valid(name) ==
    /\ Len(name) <= NAME_MAX_LEN
    /\ \A i \in 1..Len(name) : name[i] # 0 /\ name[i] # 47
    /\ name # DirEntryName_itself
    /\ name # DirEntryName_parent

DirEntry_as_bytes(entry) == <<entry.filetype>> \o LE(entry.id, 8) \o entry.name

\* DirEntry::create.  Result: [c, err]
DirEntry_create(c, parent, filetype, id, name) ==
    With([filetype |-> filetype, id |-> id, name |-> name], LAMBDA entry :
    With(Tree_try_insert(CtxWorld(c), c.sb.root_addr,
                         Key_new(parent, DT_DirEntry, fnv_hash(name)),
                         DirEntry_as_bytes(entry)),
         LAMBDA r :
        [c |-> AfterTree(c, r), err |-> r.err]))

\* File::create that puts the entry under the new node instead of the parent
File_create_under_own_id(c, parent, filetype, name) ==
    With(FsNode_create(c, filetype, 1), LAMBDA n :
    With(DirEntry_create(n.c, n.id, filetype, n.id, name), LAMBDA e :
        IF ~DirEntryName_valid(name) THEN [c |-> c, err |-> "InvalidName", id |-> 0]
        ELSE IF n.err # "ok" THEN [c |-> n.c, err |-> n.err, id |-> 0]
        ELSE [c |-> e.c, err |-> e.err, id |-> IF e.err = "ok" THEN n.id ELSE 0]))

\* File::create.  Result: [c, err, id]
File_create(c, parent, filetype, name) ==
    With(FsNode_create(c, filetype, 1), LAMBDA n :
    With(DirEntry_create(n.c, parent, filetype, n.id, name), LAMBDA e :
        IF ~DirEntryName_valid(name) THEN [c |-> c, err |-> "InvalidName", id |-> 0]
        ELSE IF n.err # "ok" THEN [c |-> n.c, err |-> n.err, id |-> 0]
        ELSE [c |-> e.c, err |-> e.err, id |-> IF e.err = "ok" THEN n.id ELSE 0]))

\* ------------------------------------------------------------------------
\* Transaction (src/fs/transaction) and Filesystem (src/fs/mod.rs).
\* A filesystem is [storage, superblock, block_alloc]; a transaction is
\* [storage, superblock, block_alloc]: the buffered storage over the
\* filesystem's storage, the staged superblock and the allocator snapshot.
\* ------------------------------------------------------------------------
\* Transaction::new
Transaction_new(filesystem) ==
    [storage |-> CachedStorage_new(filesystem.storage),
     superblock |-> filesystem.superblock,
     block_alloc |-> filesystem.block_alloc]

TxCtx(t) == Ctx(t.storage, t.block_alloc, t.superblock)

TxOf(c) == [storage |-> c.storage, superblock |-> c.sb, block_alloc |-> c.alloc]

\* DirEntry::try_from_bytes: a filetype byte, the id, and the name, which
\* must be UTF-8 (the names of the model are ASCII: bytes below 128).
\* Result: [ok, entry]
DirEntry_try_from_bytes(bytes) ==
    IF /\ Len(bytes) >= 9
       /\ bytes[1] \in {FT_File, FT_Dir, FT_Symlink}
       /\ \A i \in 10..Len(bytes) : bytes[i] < 128
    THEN [ok |-> TRUE,
          entry |-> [filetype |-> bytes[1], id |-> FromLE(SubSeq(bytes, 2, 9)),
                     name |-> SubSeq(bytes, 10, Len(bytes))]]
    ELSE [ok |-> FALSE, entry |-> [filetype |-> FT_File, id |-> 0, name |-> <<>>]]

\* DirEntry::read.  Result: [err, entry]
DirEntry_read(storage, sb, parent, name_hash) ==
    With(Tree_get(storage, sb.root_addr, Key_new(parent, DT_DirEntry, name_hash)), LAMBDA g :
    With(DirEntry_try_from_bytes(g.data), LAMBDA p :
        IF g.err # "ok" THEN [err |-> g.err, entry |-> p.entry]
        ELSE IF ~g.some THEN [err |-> "DirEntryNotFound", entry |-> p.entry]
        ELSE IF ~p.ok THEN [err |-> "Uninterpretable", entry |-> p.entry]
        ELSE [err |-> "ok", entry |-> p.entry]))

\* Transaction::find_entry.  Result: [err, entry]
find_entry(c, parent, name) ==
    IF ~DirEntryName_valid(name)
    THEN [err |-> "InvalidName", entry |-> [filetype |-> FT_File, id |-> 0, name |-> <<>>]]
    ELSE DirEntry_read(c.storage, c.sb, parent, fnv_hash(name))

\* Transaction::read_node.  Result: [err, node]
read_node(c, id) == FsNode_read(c.storage, c.sb, id)

\* Call(f, args) is the call f(args) of one of the functions below, which
\* are entered from several places.
RECURSIVE Call(_, _)

\* DirEntry::write.  Result: [c, err]
DirEntry_write(c, entry, parent) ==
    With(Call("Tree::insert", <<CtxWorld(c), c.sb.root_addr,
                            Key_new(parent, DT_DirEntry, fnv_hash(entry.name)),
                            DirEntry_as_bytes(entry)>>),
         LAMBDA r :
        [c |-> AfterTree(c, r), err |-> r.err])

\* DirEntry::link.  Result: [c, err]
DirEntry_link(c, parent, id, name) ==
    With(FsNode_read(c.storage, c.sb, id), LAMBDA n :
    With(Call("DirEntry::create", <<c, parent, n.node.filetype, id, name>>), LAMBDA e :
    With(Call("Node::write", <<e.c, [n.node EXCEPT !.links = n.node.links + 1], id>>), LAMBDA nw :
        IF n.err # "ok" THEN [c |-> c, err |-> n.err]
        ELSE IF n.node.filetype = FT_Dir THEN [c |-> c, err |-> "IsDir"]
        ELSE IF e.err # "ok" THEN [c |-> e.c, err |-> e.err]
        ELSE [c |-> nw.c, err |-> nw.err])))

\* The loop of Node::truncate_extents: every turn asks get_le for the
\* greatest extent of id again.  Result: [c, err]
RECURSIVE TruncateLoop(_, _, _)
TruncateLoop(c, id, size) ==
    With(Tree_get_le(c.storage, c.sb.root_addr, Key_new(id, DT_Extent, U64_MAX)), LAMBDA g :
        IF g.err # "ok" THEN [c |-> c, err |-> g.err]
        ELSE IF ~g.some THEN [c |-> c, err |-> "ok"]
        ELSE IF g.key[1] # id \/ g.key[2] # DT_Extent THEN [c |-> c, err |-> "ok"]
        ELSE With(Extent_read_from_bytes(g.data), LAMBDA p :
             IF g.key[3] >= size
             THEN With(Call("Tree::remove", <<CtxWorld(c), c.sb.root_addr, g.key>>), LAMBDA r :
                  With(AfterTree(c, r), LAMBDA c1 :
                  With(BitmapAllocator_deallocate(c1.alloc, p.ext.start, p.ext.len), LAMBDA d :
                      IF r.err # "ok" THEN [c |-> c1, err |-> r.err]
                      ELSE IF ~r.some THEN [c |-> c1, err |-> "Panic"]
                      ELSE IF ~p.ok THEN [c |-> c1, err |-> "Uninterpretable"]
                      ELSE IF d.err # "ok" THEN [c |-> c1, err |-> d.err]
                      ELSE TruncateLoop([c1 EXCEPT !.alloc = d.al], id, size))))
             ELSE With(DivCeil(size - g.key[3], BLOCK_SIZE), LAMBDA keep_blocks :
                  With(BitmapAllocator_deallocate(c.alloc, p.ext.start + keep_blocks,
                                                  p.ext.len - keep_blocks),
                       LAMBDA d :
                  With([c EXCEPT !.alloc = d.al], LAMBDA c1 :
                  With(Call("Tree::insert", <<CtxWorld(c1), c1.sb.root_addr, g.key,
                                   Extent_as_bytes(Extent_new(p.ext.start, keep_blocks))>>),
                       LAMBDA r :
                      IF ~p.ok THEN [c |-> c, err |-> "Uninterpretable"]
                      ELSE IF keep_blocks >= p.ext.len THEN [c |-> c, err |-> "ok"]
                      ELSE IF d.err # "ok" THEN [c |-> c, err |-> d.err]
                      ELSE [c |-> AfterTree(c1, r), err |-> r.err]))))))

\* Node::truncate_extents.  Result: [c, err]
truncate_extents(c, id, size) == TruncateLoop(c, id, size)

\* Node::remove.  Result: [c, err]
FsNode_remove(c, id) ==
    With(FsNode_read(c.storage, c.sb, id), LAMBDA n :
    With(IF n.node.filetype = FT_File \/ n.node.filetype = FT_Symlink
         THEN truncate_extents(c, id, 0) ELSE [c |-> c, err |-> "ok"],
         LAMBDA t :
    With(Call("Tree::remove", <<CtxWorld(t.c), t.c.sb.root_addr, Key_new(id, DT_Node, 0)>>), LAMBDA r :
        IF n.err # "ok" THEN [c |-> c, err |-> n.err]
        ELSE IF t.err # "ok" THEN [c |-> t.c, err |-> t.err]
        ELSE [c |-> AfterTree(t.c, r), err |-> r.err])))

\* DirEntry::unlink.  Result: [c, err]
DirEntry_unlink(c, parent, name) ==
    With(Key_new(parent, DT_DirEntry, fnv_hash(name)), LAMBDA key :
    With(DirEntry_read(c.storage, c.sb, parent, fnv_hash(name)), LAMBDA e :
    With(FsNode_read(c.storage, c.sb, e.entry.id), LAMBDA n :
    With(Call("Tree::remove", <<CtxWorld(c), c.sb.root_addr, key>>), LAMBDA r :
    With(AfterTree(c, r), LAMBDA c1 :
        IF e.err # "ok" THEN [c |-> c, err |-> e.err]
        ELSE IF e.entry.filetype = FT_Dir THEN [c |-> c, err |-> "IsDir"]
        ELSE IF n.err # "ok" THEN [c |-> c, err |-> n.err]
        ELSE IF r.err # "ok" THEN [c |-> c1, err |-> r.err]
        ELSE IF ~r.some THEN [c |-> c1, err |-> "Panic"]
        ELSE IF n.node.links = 0 THEN [c |-> c1, err |-> "Panic"]
        ELSE IF n.node.links = 1 THEN FsNode_remove(c1, e.entry.id)
        ELSE Call("Node::write", <<c1, [n.node EXCEPT !.links = n.node.links - 1], e.entry.id>>))))))

\* DirEntry::is_ancestor: is ancestor the directory dir or a directory above
\* it?  Result: [err, yes]
RECURSIVE is_ancestor(_, _, _, _)
is_ancestor(storage, sb, ancestor, dir) ==
    IF dir = ancestor THEN [err |-> "ok", yes |-> TRUE]
    ELSE IF dir = ROOT THEN [err |-> "ok", yes |-> FALSE]
    ELSE With(DirEntry_read(storage, sb, dir, fnv_hash(DirEntryName_parent)), LAMBDA e :
             IF e.err # "ok" THEN [err |-> e.err, yes |-> FALSE]
             ELSE is_ancestor(storage, sb, ancestor, e.entry.id))

\* DirEntry::rename.  Result: [c, err]
DirEntry_rename(c, old_parent, old_name, new_parent, new_name) ==
    With(fnv_hash(new_name), LAMBDA new_name_hash :
    With(fnv_hash(new_name), LAMBDA old_name_hash :
    With(DirEntry_read(c.storage, c.sb, old_parent, old_name_hash), LAMBDA e :
    With(is_ancestor(c.storage, c.sb, e.entry.id, new_parent), LAMBDA a :
    With(IF e.entry.filetype = FT_Dir
         THEN DirEntry_write(c, [filetype |-> FT_Dir, id |-> new_parent,
                                 name |-> DirEntryName_parent], e.entry.id)
         ELSE [c |-> c, err |-> "ok"],
         LAMBDA w :
    With(Call("Tree::remove", <<CtxWorld(w.c), w.c.sb.root_addr,
                            Key_new(old_parent, DT_DirEntry, old_name_hash)>>),
         LAMBDA r :
    With(AfterTree(w.c, r), LAMBDA c1 :
    With(Call("Tree::try_insert", <<CtxWorld(c1), c1.sb.root_addr,
                                Key_new(new_parent, DT_DirEntry, new_name_hash),
                                DirEntry_as_bytes([e.entry EXCEPT !.name = new_name])>>),
         LAMBDA i :
        IF old_parent = new_parent /\ old_name = new_name THEN [c |-> c, err |-> "ok"]
        ELSE IF DirEntry_read(c.storage, c.sb, new_parent, new_name_hash).err = "ok"
        THEN [c |-> c, err |-> "DirEntryExists"]
        ELSE IF e.err # "ok" THEN [c |-> c, err |-> e.err]
        ELSE IF e.entry.filetype = FT_Dir /\ a.err # "ok" THEN [c |-> c, err |-> a.err]
        ELSE IF e.entry.filetype = FT_Dir /\ a.yes THEN [c |-> c, err |-> "InvalidMove"]
        ELSE IF w.err # "ok" THEN [c |-> w.c, err |-> w.err]
        ELSE IF r.err # "ok" THEN [c |-> c1, err |-> r.err]
        ELSE [c |-> AfterTree(c1, i), err |-> i.err]))))))))

\* Dir::create that makes the new directory its own parent
Dir_create_own_parent(c, parent, name) ==
    With(Call("Node::create", <<c, FT_Dir, 1>>), LAMBDA n :
    With(Call("DirEntry::create", <<n.c, parent, FT_Dir, n.id, name>>), LAMBDA e1 :
    With(Call("DirEntry::create", <<e1.c, n.id, FT_Dir, n.id, DirEntryName_itself>>), LAMBDA e2 :
    With(Call("DirEntry::create", <<e2.c, n.id, FT_Dir, n.id, DirEntryName_parent>>), LAMBDA e3 :
        IF DirEntry_read(c.storage, c.sb, parent, fnv_hash(name)).err = "ok"
        THEN [c |-> c, err |-> "DirEntryExists", id |-> 0]
        ELSE IF n.err # "ok" THEN [c |-> n.c, err |-> n.err, id |-> 0]
        ELSE IF e1.err # "ok" THEN [c |-> e1.c, err |-> e1.err, id |-> 0]
        ELSE IF e2.err # "ok" THEN [c |-> e2.c, err |-> e2.err, id |-> 0]
        ELSE [c |-> e3.c, err |-> e3.err, id |-> IF e3.err = "ok" THEN n.id ELSE 0]))))

\* Dir::create.  Result: [c, err, id]
Dir_create(c, parent, name) ==
    With(Call("Node::create", <<c, FT_Dir, 1>>), LAMBDA n :
    With(Call("DirEntry::create", <<n.c, parent, FT_Dir, n.id, name>>), LAMBDA e1 :
    With(Call("DirEntry::create", <<e1.c, n.id, FT_Dir, n.id, DirEntryName_itself>>), LAMBDA e2 :
    With(Call("DirEntry::create", <<e2.c, n.id, FT_Dir, parent, DirEntryName_parent>>), LAMBDA e3 :
        IF DirEntry_read(c.storage, c.sb, parent, fnv_hash(name)).err = "ok"
        THEN [c |-> c, err |-> "DirEntryExists", id |-> 0]
        ELSE IF n.err # "ok" THEN [c |-> n.c, err |-> n.err, id |-> 0]
        ELSE IF e1.err # "ok" THEN [c |-> e1.c, err |-> e1.err, id |-> 0]
        ELSE IF e2.err # "ok" THEN [c |-> e2.c, err |-> e2.err, id |-> 0]
        ELSE [c |-> e3.c, err |-> e3.err, id |-> IF e3.err = "ok" THEN n.id ELSE 0]))))

\* The loop of Dir::is_empty, at the key (id, DirEntry, offset).
\* Result: [err, empty]
RECURSIVE IsEmptyLoop(_, _, _, _)
IsEmptyLoop(storage, sb, id, offset) ==
    With(Tree_get_le(storage, sb.root_addr, Key_new(id, DT_DirEntry, offset)), LAMBDA g :
        IF g.err # "ok" THEN [err |-> g.err, empty |-> FALSE]
        ELSE IF ~g.some THEN [err |-> "ok", empty |-> TRUE]
        ELSE IF g.key[1] # id \/ g.key[2] # DT_DirEntry THEN [err |-> "ok", empty |-> TRUE]
        ELSE IF /\ g.key[3] # fnv_hash(DirEntryName_itself)
                /\ g.key[3] # fnv_hash(DirEntryName_parent)
        THEN [err |-> "ok", empty |-> FALSE]
        ELSE IF g.key[3] = 0 THEN [err |-> "ok", empty |-> TRUE]
        ELSE IsEmptyLoop(storage, sb, id, g.key[3] - 1))

\* Dir::is_empty
Dir_is_empty(storage, sb, id) == IsEmptyLoop(storage, sb, id, U64_MAX)

\* Dir::remove.  Result: [c, err, id]
Dir_remove(c, parent, name) ==
    With(DirEntry_read(c.storage, c.sb, parent, fnv_hash(name)), LAMBDA e :
    With(Dir_is_empty(c.storage, c.sb, e.entry.id), LAMBDA m :
    With(Call("Tree::remove", <<CtxWorld(c), c.sb.root_addr,
                            Key_new(e.entry.id, DT_DirEntry, fnv_hash(DirEntryName_itself))>>),
         LAMBDA r1 :
    With(AfterTree(c, r1), LAMBDA c1 :
    With(Call("Tree::remove", <<CtxWorld(c1), c1.sb.root_addr,
                            Key_new(e.entry.id, DT_DirEntry, fnv_hash(DirEntryName_parent))>>),
         LAMBDA r2 :
    With(AfterTree(c1, r2), LAMBDA c2 :
    With(Call("Tree::remove", <<CtxWorld(c2), c2.sb.root_addr,
                            Key_new(parent, DT_DirEntry, fnv_hash(name))>>),
         LAMBDA r3 :
    With(AfterTree(c2, r3), LAMBDA c3 :
    With(FsNode_remove(c3, e.entry.id), LAMBDA nr :
        IF ~DirEntryName_valid(name) THEN [c |-> c, err |-> "InvalidName", id |-> 0]
        ELSE IF e.err # "ok" THEN [c |-> c, err |-> e.err, id |-> 0]
        ELSE IF e.entry.filetype # FT_Dir THEN [c |-> c, err |-> "NotDir", id |-> 0]
        ELSE IF m.err # "ok" THEN [c |-> c, err |-> m.err, id |-> 0]
        ELSE IF ~m.empty THEN [c |-> c, err |-> "DirNotEmpty", id |-> 0]
        ELSE IF r1.err # "ok" THEN [c |-> c1, err |-> r1.err, id |-> 0]
        ELSE IF r2.err # "ok" THEN [c |-> c2, err |-> r2.err, id |-> 0]
        ELSE IF r3.err # "ok" THEN [c |-> c3, err |-> r3.err, id |-> 0]
        ELSE [c |-> nr.c, err |-> nr.err,
              id |-> IF nr.err = "ok" THEN e.entry.id ELSE 0])))))))))

\* The loop of Dir::list, at the key (id, DirEntry, offset).
\* Result: [err, entries]
RECURSIVE ListLoop(_, _, _, _, _)
ListLoop(storage, sb, id, offset, entries) ==
    With(Tree_get_le(storage, sb.root_addr, Key_new(id, DT_DirEntry, offset)), LAMBDA g :
    With(DirEntry_try_from_bytes(g.data), LAMBDA p :
        IF g.err # "ok" THEN [err |-> g.err, entries |-> <<>>]
        ELSE IF ~g.some THEN [err |-> "ok", entries |-> entries]
        ELSE IF g.key[1] # id \/ g.key[2] # DT_DirEntry
        THEN [err |-> "ok", entries |-> entries]
        ELSE IF ~p.ok THEN [err |-> "Uninterpretable", entries |-> <<>>]
        ELSE IF g.key[3] = 0 THEN [err |-> "ok", entries |-> Append(entries, p.entry)]
        ELSE ListLoop(storage, sb, id, g.key[3] - 1, Append(entries, p.entry))))

\* Dir::list
Dir_list(storage, sb, id) == ListLoop(storage, sb, id, U64_MAX, <<>>)

\* Symlink::create with the target as bytes.  Result: [c, err, id]
Symlink_create(c, parent, name, target) ==
    With(Call("File::create", <<c, parent, FT_Symlink, name>>), LAMBDA f :
    With(Call("File::write_at", <<f.c, f.id, 0, target>>), LAMBDA w :
        IF f.err # "ok" THEN [c |-> f.c, err |-> f.err, id |-> 0]
        ELSE [c |-> w.c, err |-> w.err, id |-> IF w.err = "ok" THEN f.id ELSE 0]))

\* Transaction::create_dir.  Result: [c, err, id]
create_dir(c, parent, name) ==
    IF ~DirEntryName_valid(name) THEN [c |-> c, err |-> "InvalidName", id |-> 0]
    ELSE Dir_create(c, parent, name)

\* Transaction::remove_dir.  Result: [c, err, id]
remove_dir(c, parent, name) == Dir_remove(c, parent, name)

\* Transaction::read_dir.  Result: [err, entries]
read_dir(c, id) == Dir_list(c.storage, c.sb, id)

\* Transaction::link_file.  Result: [c, err]
link_file(c, parent, id, name) ==
    IF ~DirEntryName_valid(name) THEN [c |-> c, err |-> "InvalidName"]
    ELSE DirEntry_link(c, parent, id, name)

\* Transaction::unlink_file.  Result: [c, err]
unlink_file(c, parent, name) ==
    IF ~DirEntryName_valid(name) THEN [c |-> c, err |-> "InvalidName"]
    ELSE DirEntry_unlink(c, parent, name)

\* Transaction::rename_entry.  Result: [c, err]
rename_entry(c, old_parent, old_name, new_parent, new_name) ==
    IF ~DirEntryName_valid(old_name) \/ ~DirEntryName_valid(new_name)
    THEN [c |-> c, err |-> "InvalidName"]
    ELSE DirEntry_rename(c, old_parent, old_name, new_parent, new_name)

Call(f, a) ==
    CASE f = "Tree::insert" -> Tree_insert(a[1], a[2], a[3], a[4])
      [] f = "Tree::try_insert" -> Tree_try_insert(a[1], a[2], a[3], a[4])
      [] f = "Tree::remove" -> Tree_remove(a[1], a[2], a[3])
      [] f = "Node::create" -> FsNode_create(a[1], a[2], a[3])
      [] f = "Node::write" -> FsNode_write(a[1], a[2], a[3])
      [] f = "DirEntry::create" -> DirEntry_create(a[1], a[2], a[3], a[4], a[5])
      [] f = "File::create" -> File_create(a[1], a[2], a[3], a[4])
      [] f = "File::write_at" -> File_write_at(a[1], a[2], a[3], a[4])
      [] f = "Symlink::create" -> Symlink_create(a[1], a[2], a[3], a[4])
      [] f = "create_dir" -> create_dir(a[1], a[2], a[3])
      [] f = "remove_dir" -> remove_dir(a[1], a[2], a[3])
      [] f = "link_file" -> link_file(a[1], a[2], a[3], a[4])
      [] f = "unlink_file" -> unlink_file(a[1], a[2], a[3])
      [] f = "rename_entry" -> rename_entry(a[1], a[2], a[3], a[4], a[5])

\* Transaction::create_root_dir.  Result: [c, err, id]
create_root_dir(c) ==
    With(FsNode_create(c, FT_Dir, 1), LAMBDA n :
    With(DirEntry_create(n.c, n.id, FT_Dir, n.id, DirEntryName_itself), LAMBDA e1 :
    With(DirEntry_create(e1.c, n.id, FT_Dir, n.id, DirEntryName_parent), LAMBDA e2 :
        IF n.err # "ok" THEN [c |-> n.c, err |-> n.err, id |-> 0]
        ELSE IF n.id # 1 THEN [c |-> n.c, err |-> "Panic", id |-> 0]
        ELSE IF e1.err # "ok" THEN [c |-> e1.c, err |-> e1.err, id |-> 0]
        ELSE [c |-> e2.c, err |-> e2.err, id |-> IF e2.err = "ok" THEN n.id ELSE 0])))

\* Transaction::truncate_file.  Result: [c, err]
truncate_file(c, id, size) ==
    With(FsNode_read(c.storage, c.sb, id), LAMBDA n :
        IF n.err # "ok" THEN [c |-> c, err |-> n.err]
        ELSE FsNode_write(c, [n.node EXCEPT !.size = size], id))

\* The addresses of a set in ascending order (the iteration of a BTreeMap)
RECURSIVE Ascending(_)
Ascending(S) ==
    IF S = {} THEN <<>>
    ELSE With(CHOOSE x \in S : \A y \in S : x <= y, LAMBDA m :
             <<m>> \o Ascending(S \ {m}))

\* The loop of sync over the cached addresses addrs[i..]; the device rejects
\* the write number fail (0: it rejects none).  Result: [inner, err]
RECURSIVE SyncLoop(_, _, _, _, _)
SyncLoop(inner, cache, addrs, i, fail) ==
    IF i > Len(addrs) THEN [inner |-> inner, err |-> "ok"]
    ELSE IF i = fail THEN [inner |-> inner, err |-> "Storage"]
    ELSE SyncLoop(Storage_write_at(inner, cache[addrs[i]], addrs[i]), cache, addrs,
                  i + 1, fail)

\* sync that leaves out the block at the highest cached address
CachedStorage_sync_drops_last(s, fail) ==
    With(Ascending(DOMAIN s.cache), LAMBDA addrs :
    With(SyncLoop(s.inner, s.cache, SubSeq(addrs, 1, Len(addrs) - 1), 1, fail), LAMBDA r :
        [storage |-> [s EXCEPT !.inner = r.inner], err |-> r.err]))

\* CachedStorage::sync.  Result: [storage, err]
CachedStorage_sync(s, fail) ==
    With(SyncLoop(s.inner, s.cache, Ascending(DOMAIN s.cache), 1, fail), LAMBDA r :
        [storage |-> [s EXCEPT !.inner = r.inner], err |-> r.err])

\* Transaction::sync_superblock: queues the staged superblock and makes it
\* the filesystem's superblock.  Result: [storage, fs_superblock]
sync_superblock(t) ==
    [storage |-> write_superblock(t.storage, t.superblock),
     fs_superblock |-> t.superblock]

\* BufAllocator::sync: queues the snapshot's bytes as blocks from start on
\* and makes the snapshot the filesystem's allocator.
\* Result: [storage, fs_block_alloc]
BufAllocator_sync(block_alloc, storage, start) ==
    [storage |-> WriteChunks(storage, BitmapAllocator_as_bytes(block_alloc), start),
     fs_block_alloc |-> block_alloc]

\* Transaction::commit.  Result: [fs, t, err]: the filesystem the
\* transaction borrows and the transaction's buffers, at the return.
Transaction_commit(t, fail) ==
    With(sync_superblock(t), LAMBDA sb :
    With(BufAllocator_sync(t.block_alloc, sb.storage, t.superblock.block_alloc_start), LAMBDA ba :
    With(CachedStorage_sync(ba.storage, fail), LAMBDA sy :
        [fs |-> [storage |-> sy.storage.inner,
                 superblock |-> sb.fs_superblock,
                 block_alloc |-> ba.fs_block_alloc],
         t |-> [t EXCEPT !.storage = sy.storage],
         err |-> sy.err])))

\* A device of block_count blocks, every byte of which is fill
Device_new(block_count, fill) ==
    [kind |-> "map",
     blocks |-> [a \in 0..(block_count - 1) |-> [bytes |-> [i \in 1..BLOCK_SIZE |-> fill]]]]

Storage_capacity(s) == Cardinality(DOMAIN s.blocks)

\* Tree::format: an empty leaf as the root
Tree_format(storage, root_addr) == Storage_write_at(storage, Node_format(0), root_addr)

\* Filesystem::format.  Result: [fs, err]
Filesystem_format(storage) ==
    With(Storage_capacity(storage), LAMBDA block_count :
    With(BitmapAllocator_allocate(BitmapAllocator_new(block_count), 1), LAMBDA a0 :
    With(BitmapAllocator_allocate(a0.al, DivCeil(DivCeil(block_count, 8), BLOCK_SIZE)), LAMBDA a1 :
    With(BitmapAllocator_allocate(a1.al, 1), LAMBDA a2 :
    With([Superblock_new(block_count) EXCEPT !.root_addr = a2.addr], LAMBDA superblock :
    With(Tree_format(storage, a2.addr), LAMBDA s1 :
    With(write_superblock(s1, superblock), LAMBDA s2 :
    With(write_block_alloc(s2, superblock, a2.al), LAMBDA s3 :
    With([storage |-> s3, superblock |-> superblock, block_alloc |-> a2.al], LAMBDA filesystem :
    With(create_root_dir(TxCtx(Transaction_new(filesystem))), LAMBDA r :
    With(Transaction_commit(TxOf(r.c), 0), LAMBDA cm :
        IF a0.err # "ok" \/ a0.addr # 0 \/ a1.err # "ok" \/ a1.addr # 1
           \/ a2.err # "ok" \/ r.err # "ok"
        THEN [fs |-> filesystem, err |-> "Panic"]
        ELSE [fs |-> cm.fs, err |-> cm.err])))))))))))

\* What a failed mount leaves: no filesystem.
NoMount ==
    [storage |-> MapStorage_new, superblock |-> Superblock_new(0), block_alloc |-> BitmapAllocator_new(0)]

\* The largest number the model holds; a stored u64 above it reads as this.
IntMax == 2147483647

\* A little-endian u64 field of a stored struct
U64Field(bytes) ==
    IF (\A i \in 5..8 : bytes[i] = 0) /\ bytes[4] < 128
    THEN FromLE(SubSeq(bytes, 1, 4))
    ELSE IntMax

\* Superblock::read_from_prefix: the fields of the repr(C) struct, read from
\* the first bytes of a block.
Superblock_read_from_prefix(data) ==
    [signature |-> SubSeq(data, 1, 8),
     block_count |-> U64Field(SubSeq(data, 9, 16)),
     next_node_id |-> U64Field(SubSeq(data, 17, 24)),
     block_alloc_start |-> U64Field(SubSeq(data, 25, 32)),
     root_addr |-> U64Field(SubSeq(data, 33, 40))]

\* Filesystem::read_superblock.  Result: [ok, superblock]
read_superblock(storage) ==
    With(Storage_read_at(storage, SUPER_ADDR), LAMBDA r :
        IF r.ok
        THEN [ok |-> TRUE, superblock |-> Superblock_read_from_prefix(Block_data(r.block))]
        ELSE [ok |-> FALSE, superblock |-> Superblock_new(0)])

\* The bitmap bytes stored in the device's blocks from start on
BitmapOnDevice(storage, start, len) ==
    [j \in 1..len |->
        Block_data(Storage_read_at(storage, start + ((j - 1) \div BLOCK_SIZE)).block)
            [((j - 1) % BLOCK_SIZE) + 1]]

\* Filesystem::read_block_alloc.  Result: [ok, block_alloc]
read_block_alloc(storage, superblock) ==
    With(DivCeil(DivCeil(superblock.block_count, 8), BLOCK_SIZE), LAMBDA blocks :
        IF \A i \in 0..(blocks - 1) :
               Storage_read_at(storage, superblock.block_alloc_start + i).ok
        THEN [ok |-> TRUE,
              block_alloc |->
                  BitmapAllocator_from_bytes(superblock.block_count,
                      BitmapOnDevice(storage, superblock.block_alloc_start,
                                     blocks * BLOCK_SIZE))]
        ELSE [ok |-> FALSE, block_alloc |-> BitmapAllocator_new(0)])

\* mount without the signature check
Filesystem_mount_unchecked(storage) ==
    With(read_superblock(storage), LAMBDA s :
        IF ~s.ok THEN [fs |-> NoMount, err |-> "EIO"]
        ELSE With(read_block_alloc(storage, s.superblock), LAMBDA b :
                 IF ~b.ok THEN [fs |-> NoMount, err |-> "EIO"]
                 ELSE [fs |-> [storage |-> storage, superblock |-> s.superblock,
                               block_alloc |-> b.block_alloc],
                       err |-> "ok"]))

\* Filesystem::mount.  Result: [fs, err]
Filesystem_mount(storage) ==
    With(read_superblock(storage), LAMBDA s :
        IF ~s.ok THEN [fs |-> NoMount, err |-> "EIO"]
        ELSE IF s.superblock.signature # SIGNATURE THEN [fs |-> NoMount, err |-> "EINVAL"]
        ELSE With(read_block_alloc(storage, s.superblock), LAMBDA b :
                 IF ~b.ok THEN [fs |-> NoMount, err |-> "EIO"]
                 ELSE [fs |-> [storage |-> storage, superblock |-> s.superblock,
                               block_alloc |-> b.block_alloc],
                       err |-> "ok"]))

\* ------------------------------------------------------------------------
\* The tree under test (src/tree/tests.rs, TreeState), with the reference
\* sorted map of the property test.
\* ------------------------------------------------------------------------
VARIABLES t_storage, t_alloc, t_root, t_ref, t_ops, t_max

\* The filesystem under test: fs is the mounted Filesystem, tx the transaction
\* on it (tx.state tells whether one is open and how the last one ended),
\* pre the filesystem as it was when the transaction began.
VARIABLES fs, tx, pre, fs_ops

\* The allocator under test: a_al is the BitmapAllocator, a_fresh tells that
\* nothing was deallocated since new, a_total is the sum of the successful
\* allocations, a_last is the last call with its result and the allocator
\* before it, a_ops counts the calls.
VARIABLES a_al, a_fresh, a_total, a_last, a_ops

\* The buffered storage under test: b_st is the buffered storage over its
\* device, b_dev the device when the buffer was made, b_log the writes made
\* through the buffer, b_synced tells that sync ran, b_last is the last call
\* with its result, b_ops counts the calls.
VARIABLES b_st, b_dev, b_log, b_synced, b_last, b_ops

vars == <<t_storage, t_alloc, t_root, t_ref, t_ops, t_max, fs, tx, pre, fs_ops, a_al, a_fresh, a_total, a_last, a_ops, b_st, b_dev, b_log, b_synced, b_last, b_ops>>

treevars == <<t_storage, t_alloc, t_root, t_ref, t_ops, t_max>>
fsvars == <<fs, tx, pre, fs_ops>>
allocvars == <<a_al, a_fresh, a_total, a_last, a_ops>>
bufvars == <<b_st, b_dev, b_log, b_synced, b_last, b_ops>>

NoFilesystem ==
    [storage |-> MapStorage_new, superblock |-> Superblock_new(0),
     block_alloc |-> BitmapAllocator_new(0)]

NoTransaction ==
    [state |-> "none", cache |-> <<>>, superblock |-> Superblock_new(0),
     block_alloc |-> BitmapAllocator_new(0)]

\* No filesystem is mounted.
FsIdle == fs = NoFilesystem /\ tx = NoTransaction /\ pre = NoFilesystem /\ fs_ops = 0

NoCall == [op |-> "none", start |-> 0, count |-> 0, err |-> "ok", addr |-> 0, before |-> BitmapAllocator_new(0)]

AllocIdle == a_al = BitmapAllocator_new(0) /\ a_fresh = TRUE /\ a_total = 0 /\ a_last = NoCall /\ a_ops = 0

NoRead == [op |-> "none", addr |-> 0, result |-> [ok |-> FALSE, block |-> <<>>]]

BufIdle == b_st = CachedStorage_new(MapStorage_new) /\ b_dev = MapStorage_new /\ b_log = <<>> /\ b_synced = FALSE /\ b_last = NoRead /\ b_ops = 0

MaxId == 5
MaxOps == 3
MaxOpsAny == 2
TreeBlocks == 16
SmallLen == 3

TreeKeys == {Key_new(id, dt, 0) : id \in 1..MaxId, dt \in {DT_Node, DT_Extent, DT_DirEntry}}
TreeSizes == {SmallLen, DATA_MAX_LEN}

\* The length of the payload first stored under a key, by its data type.
SizeOf(key) ==
    IF key[2] = DT_Node THEN NODE_SIZE
    ELSE IF key[2] = DT_Extent THEN DATA_MAX_LEN
    ELSE SmallLen

\* A payload: bytes that depend on the key, the length and the position.
MkData(key, size) ==
    [i \in 1..size |-> (key[1] * 16 + key[2] * 4 + key[3] + size + i) % 256]

TreeWorld == World(t_storage, t_alloc)

\* The keys in ascending order: KeyAt(1) < KeyAt(2) < ...
KeyCount == 3 * MaxId
KeyAt(i) == Key_new(((i - 1) \div 3) + 1, (i - 1) % 3, 0)

\* The orders in which a tree is filled before the operations start:
\* ascending, descending, and in steps of 7 around the key sequence.
Orders == {"asc", "desc", "step"}
OrderKey(order, i) ==
    CASE order = "asc" -> KeyAt(i)
      [] order = "desc" -> KeyAt(KeyCount + 1 - i)
      [] order = "step" -> KeyAt(((i * 7) % KeyCount) + 1)

\* TreeState::default(), over the bitmap allocator the filesystem runs the
\* tree on. Result: [w, root_addr, err]
TreeState_default ==
    With(BitmapAllocator_allocate(BitmapAllocator_new(TreeBlocks), 1), LAMBDA a :
        [w |-> World(Storage_write_at(MapStorage_new, Node_format(0), a.addr), a.al),
         root_addr |-> a.addr, err |-> "ok"])

\* TreeState::insert of the order's keys i..n, one after the other
RECURSIVE Fill(_, _, _, _)
Fill(st, order, i, n) ==
    IF i > n \/ st.err # "ok" THEN st
    ELSE With(OrderKey(order, i), LAMBDA key :
             Fill(Tree_insert(st.w, st.root_addr, key, MkData(key, SizeOf(key))),
                  order, i + 1, n))

\* The tree under test starts as TreeState::default() filled with the first n
\* keys of an order.
InitFilled(max) ==
    \E order \in Orders, n \in 0..KeyCount :
        With(Fill(TreeState_default, order, 1, n), LAMBDA st :
            /\ t_storage = st.w.storage
            /\ t_alloc = st.w.alloc
            /\ t_root = st.root_addr
            /\ t_ref = [key \in {OrderKey(order, i) : i \in 1..n} |->
                           MkData(key, SizeOf(key))]
            /\ t_ops = 0
            /\ t_max = max
            /\ FsIdle
            /\ AllocIdle
            /\ BufIdle)

InitTree == InitFilled(MaxOps)

InitTreeAny == InitFilled(MaxOpsAny)

\* Tree::get on the tree under test
TGet(key) == Tree_get(t_storage, t_root, key)

\* Tree::insert on the tree under test; the reference map gains the key
\* when it was absent. t_ops counts the operations applied, t_max is the
\* number of operations a behaviour applies.
TreeInsert(key, data) ==
    /\ t_ops < t_max
    /\ \E r \in {Tree_insert(TreeWorld, t_root, key, data)} :
        /\ t_ops' = t_ops + 1
        /\ UNCHANGED <<t_max, fsvars, allocvars, bufvars>>
        /\ t_storage' = r.w.storage
        /\ t_alloc' = r.w.alloc
        /\ t_root' = r.root_addr
        /\ t_ref' = IF key \notin DOMAIN t_ref THEN Put(t_ref, key, data) ELSE t_ref

\* TreeState::remove
TreeRemove(key) ==
    /\ t_ops < t_max
    /\ \E r \in {Tree_remove(TreeWorld, t_root, key)} :
        /\ t_ops' = t_ops + 1
        /\ UNCHANGED <<t_max, fsvars, allocvars, bufvars>>
        /\ t_storage' = r.w.storage
        /\ t_alloc' = r.w.alloc
        /\ t_root' = r.root_addr
        /\ t_ref' = [k \in DOMAIN t_ref \ {key} |-> t_ref[k]]

\* Transition::Insert, under its precondition: the key is absent
Insert == \E key \in TreeKeys :
    /\ key \notin DOMAIN t_ref
    /\ TreeInsert(key, MkData(key, SizeOf(key)))

\* Transition::Remove, under its precondition: the key is present
Remove == \E key \in TreeKeys :
    /\ key \in DOMAIN t_ref
    /\ TreeRemove(key)

NextTree == Insert \/ Remove

SpecTree == InitTree /\ [][NextTree]_vars

\* An insert of a key that is present, with any payload
InsertPresent == \E key \in TreeKeys, size \in TreeSizes :
    /\ key \in DOMAIN t_ref
    /\ TreeInsert(key, MkData(key, size))

\* A remove of a key that is absent
RemoveAbsent == \E key \in TreeKeys :
    /\ key \notin DOMAIN t_ref
    /\ TreeRemove(key)

NextTreeAny == Insert \/ Remove \/ InsertPresent \/ RemoveAbsent

SpecTreeAny == InitTreeAny /\ [][NextTreeAny]_vars

\* The height stored in the root node
RootHeight == Storage_read_at(t_storage, t_root).block.height

\* C1: under Insert-only-if-absent and Remove-only-if-present, after each
\* operation Tree::get agrees with the reference map on every key: a present
\* key returns exactly its payload, an absent or removed key returns None.
C1_GetMatchesReference ==
    \A key \in TreeKeys :
        With(TGet(key), LAMBDA g :
            /\ g.err = "ok"
            /\ g.some = (key \in DOMAIN t_ref)
            /\ key \in DOMAIN t_ref => g.data = t_ref[key])

\* C1 witness: after operations, a tree of height 2 that holds some keys and
\* lacks others, and agrees with the reference map.
C1_Witness ==
    /\ t_ops >= 2
    /\ RootHeight = 2
    /\ Cardinality(DOMAIN t_ref) \in 3..(KeyCount - 1)
    /\ C1_GetMatchesReference

\* The results of Tree::get for every key, on a tree given by its storage
\* and root
GetAll(storage, root_addr) ==
    [key \in TreeKeys |-> Tree_get(storage, root_addr, key)]

\* The leaf the descent for a key ends in
RECURSIVE LeafFor(_, _, _)
LeafFor(storage, addr, key) ==
    With(Storage_read_at(storage, addr).block, LAMBDA node :
        IF node.height = 0 THEN node
        ELSE LeafFor(storage, child_for(node, key), key))

\* C7: Tree::insert of a key the tree holds returns Error::Occupied, whatever
\* the payload and however full the leaf holding the key is.
C7_InsertPresentIsOccupied ==
    \A key \in TreeKeys, size \in TreeSizes :
        TGet(key).some =>
            Tree_insert(TreeWorld, t_root, key, MkData(key, size)).err = "Occupied"

\* C7 witness: a present key in a leaf too full to take the payload, for
\* which the insert answers Occupied.
C7_Witness ==
    /\ t_ops >= 1
    /\ \E key \in TreeKeys, size \in TreeSizes :
        /\ TGet(key).some
        /\ ~can_insert(LeafFor(t_storage, t_root, key), 1, size)
        /\ Tree_insert(TreeWorld, t_root, key, MkData(key, size)).err = "Occupied"

\* C8: an insert of a present key, through Tree::insert or Tree::try_insert,
\* leaves the result of Tree::get unchanged for every key.
C8_InsertPresentKeepsMapping ==
    \A key \in TreeKeys, size \in TreeSizes :
        TGet(key).some =>
            With(Tree_insert(TreeWorld, t_root, key, MkData(key, size)), LAMBDA r :
            With(Tree_try_insert(TreeWorld, t_root, key, MkData(key, size)), LAMBDA t :
                /\ GetAll(r.w.storage, r.root_addr) = GetAll(t_storage, t_root)
                /\ GetAll(t.w.storage, t.root_addr) = GetAll(t_storage, t_root)))

\* C9: Tree::remove of a present key returns its payload and the key is then
\* absent; of an absent key it returns None and no get result changes.
C9_RemoveReturnsPayload ==
    \A key \in TreeKeys :
        With(TGet(key), LAMBDA g :
        With(Tree_remove(TreeWorld, t_root, key), LAMBDA r :
            /\ r.err = "ok"
            /\ g.some =>
                /\ r.some
                /\ r.data = g.data
                /\ Tree_get(r.w.storage, r.root_addr, key)
                     = [err |-> "ok", some |-> FALSE, data |-> <<>>]
            /\ ~g.some =>
                /\ ~r.some
                /\ GetAll(r.w.storage, r.root_addr) = GetAll(t_storage, t_root)))

\* C9 witness: in a tree of height 2, the remove of a present key
\* returns its payload and changes root_addr, and the remove of an absent key
\* returns None.
C9_Witness ==
    /\ RootHeight = 2
    /\ t_ops >= 1
    /\ \E key \in TreeKeys :
        With(Tree_remove(TreeWorld, t_root, key), LAMBDA r :
            TGet(key).some /\ r.some /\ r.data = t_ref[key] /\ r.root_addr # t_root)
    /\ \E key \in TreeKeys :
        ~TGet(key).some /\ ~Tree_remove(TreeWorld, t_root, key).some

\* Every node below addr stores a height one less than its parent's, down to
\* the leaves at height 0.
RECURSIVE HeightsAgree(_, _)
HeightsAgree(storage, addr) ==
    With(Storage_read_at(storage, addr).block, LAMBDA node :
        node.height = 0 \/
        \A i \in 1..item_count(node) :
            With(Storage_read_at(storage, node.items[i].child), LAMBDA rd :
                /\ rd.ok
                /\ IsNode(rd.block)
                /\ rd.block.height = node.height - 1
                /\ HeightsAgree(storage, node.items[i].child)))

\* C10: after every insert and remove the stored height of each node is its
\* distance to the leaves, so all leaves are at the same depth.
C10_UniformDepth ==
    With(Storage_read_at(t_storage, t_root), LAMBDA rd :
        rd.ok /\ IsNode(rd.block) /\ HeightsAgree(t_storage, t_root))

\* C10 witness: a tree of height 2 after an operation.
C10_Witness ==
    /\ RootHeight = 2
    /\ t_ops >= 1
    /\ C10_UniformDepth

\* The keys get_le is asked for: the keys of the tree, keys between them and
\* keys below and above all of them
ProbeKeys ==
    {Key_new(id, dt, off) : id \in 0..(MaxId + 1),
                            dt \in {DT_Node, DT_Extent, DT_DirEntry},
                            off \in {0, 1}}

\* The stored keys that are <= key
StoredLe(key) == {k \in TreeKeys : TGet(k).some /\ KeyLe(k, key)}

FsBlocks == 12
MaxFsOps == 3
MaxFail == 4
MaxFileId == 3
BufLen == 8

\* Device contents before format
Fills == {0, 165}

\* "a", "b"
FsNames == {<<97>>, <<98>>}

FsIds == 1..MaxFileId

\* Offsets at a block start, inside a block, and short of a block boundary
\* so that a buffer of BufLen bytes crosses it
FsOffsets == {0, 3, BLOCK_SIZE - 2}

MkBuf(len, seed) == [i \in 1..len |-> ((seed + 7 * i) % 255) + 1]

FsBufs == {MkBuf(2, 1), MkBuf(BufLen, 40)}

FsSizes == {0, 5}

\* The transaction as the code holds it: its buffered storage borrows the
\* filesystem's storage.
Tx ==
    [storage |-> [kind |-> "cached", cache |-> tx.cache, inner |-> fs.storage],
     superblock |-> tx.superblock,
     block_alloc |-> tx.block_alloc]

InitFs ==
    /\ \E fill \in Fills : fs = Filesystem_format(Device_new(FsBlocks, fill)).fs
    /\ tx = NoTransaction
    /\ pre = NoFilesystem
    /\ fs_ops = 0
    /\ t_storage = MapStorage_new
    /\ t_alloc = BitmapAllocator_new(0)
    /\ t_root = 0
    /\ t_ref = <<>>
    /\ t_ops = 0
    /\ t_max = 0
    /\ AllocIdle
    /\ BufIdle

\* Filesystem::tx, Transaction::new
Begin ==
    /\ tx.state # "open"
    /\ fs_ops < MaxFsOps
    /\ tx' = [state |-> "open", cache |-> Transaction_new(fs).storage.cache,
              superblock |-> Transaction_new(fs).superblock,
              block_alloc |-> Transaction_new(fs).block_alloc]
    /\ pre' = fs
    /\ UNCHANGED <<fs, fs_ops, treevars, allocvars, bufvars>>

\* The state after an operation of the open transaction left the context c
InTx(c) ==
    /\ fs_ops < MaxFsOps
    /\ fs_ops' = fs_ops + 1
    /\ tx' = [state |-> "open", cache |-> c.storage.cache, superblock |-> c.sb,
              block_alloc |-> c.alloc]
    /\ fs' = [fs EXCEPT !.storage = c.storage.inner]
    /\ UNCHANGED <<pre, treevars, allocvars, bufvars>>

\* Transaction::create_file
CreateFile ==
    \E name \in FsNames :
        /\ tx.state = "open"
        /\ InTx(File_create(TxCtx(Tx), ROOT, FT_File, name).c)

\* Transaction::write_file_at
WriteFileAt ==
    \E id \in FsIds, offset \in FsOffsets, buf \in FsBufs :
        /\ tx.state = "open"
        /\ InTx(File_write_at(TxCtx(Tx), id, offset, buf).c)

\* Transaction::truncate_file
TruncateFile ==
    \E id \in FsIds, size \in FsSizes :
        /\ tx.state = "open"
        /\ InTx(truncate_file(TxCtx(Tx), id, size).c)

\* Transaction::commit
Commit ==
    /\ tx.state = "open"
    /\ \E fail \in 0..MaxFail : \E r \in {Transaction_commit(Tx, fail)} :
            /\ fs' = r.fs
            /\ tx' = [state |-> IF r.err = "ok" THEN "committed" ELSE "failed",
                      cache |-> r.t.storage.cache, superblock |-> r.t.superblock,
                      block_alloc |-> r.t.block_alloc]
            /\ UNCHANGED <<pre, fs_ops, treevars, allocvars, bufvars>>

\* The transaction is dropped without commit.
Drop ==
    /\ tx.state = "open"
    /\ tx' = [tx EXCEPT !.state = "dropped"]
    /\ UNCHANGED <<fs, pre, fs_ops, treevars, allocvars, bufvars>>

NextFs == Begin \/ CreateFile \/ WriteFileAt \/ TruncateFile \/ Commit \/ Drop

SpecFs == InitFs /\ [][NextFs]_vars

\* ------------------------------------------------------------------------
\* Claims about transactions
\* ------------------------------------------------------------------------
\* C2: when a transaction is dropped without commit, whatever ran inside it,
\* every block of the device, the live superblock and the live allocator are
\* what they were when the transaction began.
C2_DropLeavesFilesystem ==
    tx.state = "dropped" =>
        /\ fs.storage = pre.storage
        /\ fs.superblock = pre.superblock
        /\ fs.block_alloc = pre.block_alloc

\* A dropped transaction that had buffered blocks, created a node and
\* allocated blocks.
C2_Witness ==
    /\ tx.state = "dropped"
    /\ Cardinality(DOMAIN tx.cache) >= 2
    /\ tx.superblock.next_node_id > pre.superblock.next_node_id
    /\ tx.block_alloc.available < pre.block_alloc.available
    /\ C2_DropLeavesFilesystem

\* C3: the live superblock is replaced by the staged one only after the
\* flush: when a device write fails during the flush of commit, the live
\* superblock is still the one from before the transaction.
C3_FailedFlushKeepsSuperblock ==
    tx.state = "failed" => fs.superblock = pre.superblock


\* C4: after commit returns Ok the device holds the last block written to
\* every address written in the transaction and is unchanged elsewhere,
\* block 0 holds the staged superblock, the blocks from block_alloc_start on
\* hold the staged allocator's bitmap, and the live superblock and allocator
\* are the staged ones.
C4_CommitPersists ==
    tx.state = "committed" =>
        /\ \A addr \in DOMAIN tx.cache :
               Storage_read_at(fs.storage, addr) = [ok |-> TRUE, block |-> tx.cache[addr]]
        /\ \A addr \in DOMAIN pre.storage.blocks \ DOMAIN tx.cache :
               Storage_read_at(fs.storage, addr) = Storage_read_at(pre.storage, addr)
        /\ Storage_read_at(fs.storage, SUPER_ADDR).block
               = Block_new(Superblock_as_bytes(tx.superblock))
        /\ BitmapOnDevice(fs.storage, tx.superblock.block_alloc_start,
                          Len(BitmapAllocator_as_bytes(tx.block_alloc)))
               = BitmapAllocator_as_bytes(tx.block_alloc)
        /\ fs.superblock = tx.superblock
        /\ fs.block_alloc = tx.block_alloc
        /\ Transaction_new(fs).superblock = tx.superblock
        /\ Transaction_new(fs).block_alloc = tx.block_alloc

\* A committed transaction that wrote tree and data blocks, created a node
\* and allocated blocks.
C4_Witness ==
    /\ tx.state = "committed"
    /\ Cardinality(DOMAIN tx.cache) >= 5
    /\ \E addr \in DOMAIN tx.cache : ~IsNode(tx.cache[addr]) /\ addr > tx.superblock.root_addr
    /\ tx.superblock.next_node_id > pre.superblock.next_node_id
    /\ tx.block_alloc.available < pre.block_alloc.available
    /\ C4_CommitPersists

\* ------------------------------------------------------------------------
\* Claims about files
\* ------------------------------------------------------------------------
\* The ids of the files the open transaction sees
FileIds ==
    {id \in FsIds : With(FsNode_read(Tx.storage, Tx.superblock, id), LAMBDA n :
                        n.err = "ok" /\ n.node.filetype = FT_File)}

\* C5: whatever was written and truncated before, write_file_at(id, off, buf)
\* writes |buf| bytes (unless the device is full) and read_file_at(id, off)
\* into a buffer of |buf| bytes then returns |buf| bytes equal to buf.
C5_WriteThenReadReturnsBuf ==
    tx.state = "open" =>
        \A id \in FileIds, offset \in FsOffsets, buf \in FsBufs :
            With(File_write_at(TxCtx(Tx), id, offset, buf), LAMBDA w :
            With(File_read_at(w.c.storage, w.c.sb, id, offset, Len(buf)), LAMBDA r :
                \/ w.err = "NoSpace"
                \/ /\ w.err = "ok"
                   /\ w.written = Len(buf)
                   /\ r.err = "ok"
                   /\ r.read = Len(buf)
                   /\ r.out = buf))

\* ------------------------------------------------------------------------
\* Claims about the shape of the tree
\* ------------------------------------------------------------------------
\* The addresses of the nodes of the subtree at addr
RECURSIVE NodesUnder(_, _)
NodesUnder(storage, addr) ==
    With(Storage_read_at(storage, addr).block, LAMBDA node :
        IF node.height = 0 THEN {addr}
        ELSE {addr} \cup UNION {NodesUnder(storage, node.items[i].child) :
                                   i \in 1..Len(node.items)})

\* The keys stored in the leaves of the subtree at addr
RECURSIVE KeysUnder(_, _)
KeysUnder(storage, addr) ==
    With(Storage_read_at(storage, addr).block, LAMBDA node :
        IF node.height = 0 THEN {node.items[i].key : i \in 1..Len(node.items)}
        ELSE UNION {KeysUnder(storage, node.items[i].child) : i \in 1..Len(node.items)})

TreeNodes == NodesUnder(t_storage, t_root)

TreeBranches == {addr \in TreeNodes : Storage_read_at(t_storage, addr).block.height # 0}

\* C11: after every insert and every remove, every node other than the root
\* is non-deficient: its used space is at least half the node capacity.
C11_NoDeficientNode ==
    \A addr \in TreeNodes \ {t_root} :
        ~Node_is_deficient(Storage_read_at(t_storage, addr).block)

\* C12: after every insert and every remove, the key of each branch item is
\* the smallest key of the subtree the item points to.
C12_BranchKeyIsLowerBound ==
    \A addr \in TreeBranches :
        With(Storage_read_at(t_storage, addr).block, LAMBDA branch :
            \A i \in 1..Len(branch.items) :
                With(KeysUnder(t_storage, branch.items[i].child), LAMBDA keys :
                    /\ branch.items[i].key \in keys
                    /\ \A k \in keys : KeyLe(branch.items[i].key, k)))

\* C13: after every insert and every remove, the items of every node are
\* strictly increasing by key, and every key in the subtree of child i of a
\* branch is >= the branch's key i and < its key i+1.
C13_KeysOrdered ==
    /\ \A addr \in TreeNodes :
           With(Storage_read_at(t_storage, addr).block, LAMBDA node :
               \A i \in 1..(Len(node.items) - 1) :
                   KeyLt(node.items[i].key, node.items[i + 1].key))
    /\ \A addr \in TreeBranches :
           With(Storage_read_at(t_storage, addr).block, LAMBDA branch :
               \A i \in 1..Len(branch.items) :
                   \A k \in KeysUnder(t_storage, branch.items[i].child) :
                       /\ KeyLe(branch.items[i].key, k)
                       /\ i < Len(branch.items) => KeyLt(k, branch.items[i + 1].key))

\* A tree of height 2 with at least three leaves, after two operations
C13_Witness ==
    /\ t_ops >= 2
    /\ RootHeight = 2
    /\ Cardinality(TreeNodes) >= 4
    /\ C13_KeysOrdered

\* ------------------------------------------------------------------------
\* The allocator under test: a BitmapAllocator over AllocBlocks blocks
\* ------------------------------------------------------------------------
AllocBlocks == 5
MaxAllocOps == 4

AllocCounts == 1..(AllocBlocks + 1)
DeallocStarts == 0..(AllocBlocks + 1)
DeallocCounts == 0..(AllocBlocks + 1)

InitAlloc ==
    /\ a_al = BitmapAllocator_new(AllocBlocks)
    /\ a_fresh = TRUE
    /\ a_total = 0
    /\ a_last = NoCall
    /\ a_ops = 0
    /\ t_storage = MapStorage_new
    /\ t_alloc = BitmapAllocator_new(0)
    /\ t_root = 0
    /\ t_ref = <<>>
    /\ t_ops = 0
    /\ t_max = 0
    /\ FsIdle
    /\ BufIdle

\* Allocator::allocate
Allocate ==
    \E count \in AllocCounts :
        LET r == BitmapAllocator_allocate(a_al, count)
        IN  /\ a_ops < MaxAllocOps
            /\ a_ops' = a_ops + 1
            /\ a_al' = r.al
            /\ a_total' = IF r.err = "ok" THEN a_total + count ELSE a_total
            /\ a_last' = [op |-> "allocate", start |-> 0, count |-> count, err |-> r.err, addr |-> r.addr, before |-> a_al]
            /\ UNCHANGED <<a_fresh, treevars, fsvars, bufvars>>

\* Allocator::deallocate
Deallocate ==
    \E start \in DeallocStarts, count \in DeallocCounts :
        LET r == BitmapAllocator_deallocate(a_al, start, count)
        IN  /\ a_ops < MaxAllocOps
            /\ a_ops' = a_ops + 1
            /\ a_al' = r.al
            /\ a_fresh' = (a_fresh /\ r.al = a_al)
            /\ a_last' = [op |-> "deallocate", start |-> start, count |-> count, err |-> r.err, addr |-> 0, before |-> a_al]
            /\ UNCHANGED <<a_total, treevars, fsvars, bufvars>>

\* The allocator is saved and loaded again: from_bytes of as_bytes
Restore ==
    /\ a_ops < MaxAllocOps
    /\ a_ops' = a_ops + 1
    /\ a_al' = BitmapAllocator_from_bytes(a_al.count, BitmapAllocator_as_bytes(a_al))
    /\ a_fresh' = FALSE
    /\ a_last' = [op |-> "restore", start |-> 0, count |-> 0, err |-> "ok", addr |-> 0, before |-> a_al]
    /\ UNCHANGED <<a_total, treevars, fsvars, bufvars>>

NextAlloc == Allocate \/ Deallocate \/ Restore

SpecAlloc == InitAlloc /\ [][NextAlloc]_vars

\* The blocks [start, start + count) are in range and free in al
IsFreeRun(al, start, count) ==
    /\ start + count <= al.count
    /\ \A a \in start..(start + count - 1) : ~al.bits[a + 1]

HasFreeRun(al, count) == \E start \in 0..al.count : IsFreeRun(al, start, count)

\* The blocks [start, start + count) are in range and allocated in al
IsAllocatedRun(al, start, count) ==
    /\ start + count <= al.count
    /\ \A a \in start..(start + count - 1) : al.bits[a + 1]

Allocated(al) == {a \in 0..(al.count - 1) : al.bits[a + 1]}

\* C14: allocate(count) with count > 0 succeeds with the start of a run of
\* count free blocks whenever the bitmap holds such a run, and returns
\* NoSpace only when there is none.
C14_AllocateFindsEveryRun ==
    a_last.op = "allocate" =>
        /\ HasFreeRun(a_last.before, a_last.count) =>
               /\ a_last.err = "ok"
               /\ IsFreeRun(a_last.before, a_last.addr, a_last.count)
        /\ a_last.err = "NoSpace" => ~HasFreeRun(a_last.before, a_last.count)

\* C15: on a fresh allocator over N blocks, allocations that total at most N
\* blocks all succeed, and once the total is N every further allocation of a
\* positive count fails with NoSpace.
C15_FreshAllocatorFillsUp ==
    (a_fresh /\ a_last.op = "allocate") =>
        \/ a_last.err = "ok" /\ a_total <= AllocBlocks
        \/ a_last.err = "NoSpace" /\ a_total + a_last.count > AllocBlocks

\* The fresh allocator was filled to the last block and a further call failed
C15_Witness ==
    /\ a_fresh
    /\ a_total = AllocBlocks
    /\ a_ops >= 3
    /\ a_last.op = "allocate"
    /\ a_last.count = 1
    /\ a_last.err = "NoSpace"

\* C16: deallocate(start, c) over allocated blocks clears exactly these bits
\* and raises available by c; allocate(n) = a followed by deallocate(a, n)
\* restores available.
C16_DeallocateClearsSpan ==
    /\ (a_last.op = "deallocate" /\ IsAllocatedRun(a_last.before, a_last.start, a_last.count)) =>
           /\ a_last.err = "ok"
           /\ Allocated(a_al) = Allocated(a_last.before) \ (a_last.start..(a_last.start + a_last.count - 1))
           /\ a_al.available = a_last.before.available + a_last.count
    /\ \A n \in AllocCounts :
           With(BitmapAllocator_allocate(a_al, n), LAMBDA r :
           With(BitmapAllocator_deallocate(r.al, r.addr, n), LAMBDA d :
               r.err = "ok" => (d.err = "ok" /\ d.al.available = a_al.available)))

\* A part of an allocation was given back: blocks on both sides stay allocated
C16_Witness ==
    /\ a_last.op = "deallocate"
    /\ a_last.err = "ok"
    /\ a_last.count >= 2
    /\ a_last.start - 1 \in Allocated(a_al)
    /\ a_last.start + a_last.count \in Allocated(a_al)

\* C17: deallocate returns AddrOutOfBounds when start + count is above the
\* block count and NotAllocated when a block of an in-range span is free; the
\* bitmap and available are unchanged in both cases.
C17_DeallocateRejects ==
    a_last.op = "deallocate" =>
        /\ a_last.start + a_last.count > a_last.before.count => a_last.err = "AddrOutOfBounds"
        /\ (/\ a_last.start + a_last.count <= a_last.before.count
            /\ ~IsAllocatedRun(a_last.before, a_last.start, a_last.count)) => a_last.err = "NotAllocated"
        /\ a_last.err # "ok" => a_al = a_last.before

\* A span in range whose first block is allocated and whose last block is
\* free was rejected
C17_Witness ==
    /\ a_last.op = "deallocate"
    /\ a_last.err = "NotAllocated"
    /\ a_last.count >= 2
    /\ a_last.start \in Allocated(a_al)
    /\ a_last.start + a_last.count - 1 \notin Allocated(a_al)

\* C18: BitmapAllocator::from_bytes(block_count, a.as_bytes()) has the same
\* allocated blocks and the same available count as a.
C18_FromBytesOfAsBytes ==
    With(BitmapAllocator_from_bytes(a_al.count, BitmapAllocator_as_bytes(a_al)), LAMBDA b :
        /\ b.count = a_al.count
        /\ Allocated(b) = Allocated(a_al)
        /\ b.available = a_al.available
        /\ a_last.op = "restore" =>
               /\ Allocated(a_al) = Allocated(a_last.before)
               /\ a_al.available = a_last.before.available)

\* An allocator with a hole between allocated blocks was saved and loaded
C18_Witness ==
    /\ a_last.op = "restore"
    /\ a_al.last_cursor = 0
    /\ a_last.before.last_cursor # 0
    /\ \E a \in Allocated(a_al), h \in 0..(AllocBlocks - 1), c \in Allocated(a_al) :
           a < h /\ h < c /\ h \notin Allocated(a_al)

\* ------------------------------------------------------------------------
\* The buffered storage under test: a buffer over a device of BufBlocks blocks
\* ------------------------------------------------------------------------
BufBlocks == 2
MaxBufOps == 4
MaxBufFail == 2

\* The addresses of the device and one address behind its end
BufAddrs == 0..BufBlocks

\* The blocks written through the buffer
BufFills == {171, 205}

InitBuf ==
    /\ \E fill \in Fills :
           /\ b_dev = Device_new(BufBlocks, fill)
           /\ b_st = CachedStorage_new(Device_new(BufBlocks, fill))
    /\ b_log = <<>>
    /\ b_synced = FALSE
    /\ b_last = NoRead
    /\ b_ops = 0
    /\ t_storage = MapStorage_new
    /\ t_alloc = BitmapAllocator_new(0)
    /\ t_root = 0
    /\ t_ref = <<>>
    /\ t_ops = 0
    /\ t_max = 0
    /\ FsIdle
    /\ AllocIdle

\* Storage::write_at on the buffer
BufWrite ==
    \E addr \in BufAddrs, fill \in BufFills :
        LET block == [bytes |-> [i \in 1..BLOCK_SIZE |-> fill]]
        IN  /\ b_ops < MaxBufOps
            /\ b_ops' = b_ops + 1
            /\ b_st' = Storage_write_at(b_st, block, addr)
            /\ b_log' = Append(b_log, [addr |-> addr, block |-> block])
            /\ b_last' = [op |-> "write", addr |-> addr, result |-> [ok |-> TRUE, block |-> block]]
            /\ UNCHANGED <<b_dev, b_synced, treevars, fsvars, allocvars>>

\* Storage::read_at on the buffer
BufRead ==
    \E addr \in BufAddrs :
        /\ b_ops < MaxBufOps
        /\ b_ops' = b_ops + 1
        /\ b_last' = [op |-> "read", addr |-> addr, result |-> Storage_read_at(b_st, addr)]
        /\ UNCHANGED <<b_st, b_dev, b_log, b_synced, treevars, fsvars, allocvars>>

\* sync of the buffer; the device rejects the write number fail (0: none)
BufSync ==
    \E fail \in 0..MaxBufFail :
        LET r == CachedStorage_sync(b_st, fail)
        IN  /\ b_ops < MaxBufOps
            /\ b_ops' = b_ops + 1
            /\ b_st' = r.storage
            /\ b_synced' = TRUE
            /\ b_last' = [op |-> "sync", addr |-> 0, result |-> [ok |-> r.err = "ok", block |-> <<>>]]
            /\ UNCHANGED <<b_dev, b_log, treevars, fsvars, allocvars>>

NextBuf == BufWrite \/ BufRead \/ BufSync

SpecBuf == InitBuf /\ [][NextBuf]_vars

\* The indexes of the writes to addr made through the buffer
WritesTo(addr) == {i \in 1..Len(b_log) : b_log[i].addr = addr}

\* The block written to addr last through the buffer
LastWritten(addr) == b_log[CHOOSE i \in WritesTo(addr) : \A j \in WritesTo(addr) : j <= i].block

\* C19: through the transaction's buffered storage, read_at(addr) returns the
\* block written to addr last within the transaction and else the device's
\* block; a buffered write_at never changes the device before sync.
C19_BufferedReadWrite ==
    /\ b_last.op = "read" =>
           IF WritesTo(b_last.addr) # {}
           THEN b_last.result = [ok |-> TRUE, block |-> LastWritten(b_last.addr)]
           ELSE b_last.result = Storage_read_at(b_st.inner, b_last.addr)
    /\ ~b_synced => b_st.inner = b_dev

\* An address written twice with different blocks was read before any sync
C19_Witness ==
    /\ ~b_synced
    /\ b_last.op = "read"
    /\ Cardinality(WritesTo(b_last.addr)) = 2
    /\ b_log[1].block # b_log[2].block
    /\ b_last.addr \in DOMAIN b_dev.blocks
    /\ b_last.result.block # b_dev.blocks[b_last.addr]

\* ------------------------------------------------------------------------
\* Claims about directory entries
\* ------------------------------------------------------------------------
\* The file types create_file is asked for
FsFileTypes == {FT_File, FT_Symlink}

\* C20: after create_file(parent, name) succeeds where parent had no entry
\* named name, find_entry(parent, name) returns an entry with the id
\* create_file returned and the requested filetype, and read_node of that id
\* returns a node with size 0 and links 1.
C20_CreateFileThenFind ==
    tx.state = "open" =>
        \A name \in FsNames, filetype \in FsFileTypes :
            With(File_create(TxCtx(Tx), ROOT, filetype, name), LAMBDA r :
            With(find_entry(r.c, ROOT, name), LAMBDA e :
            With(read_node(r.c, r.id), LAMBDA n :
                (/\ find_entry(TxCtx(Tx), ROOT, name).err = "DirEntryNotFound"
                 /\ r.err = "ok") =>
                    /\ e.err = "ok"
                    /\ e.entry.id = r.id
                    /\ e.entry.filetype = filetype
                    /\ e.entry.name = name
                    /\ n.err = "ok"
                    /\ n.node.size = 0
                    /\ n.node.links = 1
                    /\ n.node.filetype = filetype)))

\* A file was created under the root in the open transaction: its entry is
\* found, another name is still absent and can be created
C20_Witness ==
    /\ tx.state = "open"
    /\ fs_ops >= 1
    /\ \E name \in FsNames, other \in FsNames :
           /\ find_entry(TxCtx(Tx), ROOT, name).err = "ok"
           /\ find_entry(TxCtx(Tx), ROOT, name).entry.id > ROOT
           /\ read_node(TxCtx(Tx), find_entry(TxCtx(Tx), ROOT, name).entry.id).err = "ok"
           /\ find_entry(TxCtx(Tx), ROOT, other).err = "DirEntryNotFound"
           /\ File_create(TxCtx(Tx), ROOT, FT_File, other).err = "ok"

\* C21: create_file(parent, name) when parent already has an entry named
\* name fails with DirEntryExists.
C21_CreateExistingFails ==
    tx.state = "open" =>
        \A name \in FsNames, filetype \in FsFileTypes :
            find_entry(TxCtx(Tx), ROOT, name).err = "ok" =>
                File_create(TxCtx(Tx), ROOT, filetype, name).err = "DirEntryExists"

\* ------------------------------------------------------------------------
\* The directory tree under test: one transaction on a formatted device in
\* which directories, files and symlinks are created, linked, unlinked,
\* renamed, removed and written.
\* ------------------------------------------------------------------------
DirBlocks == 24
MaxDirOps == 3
MaxDirId == 3

\* The ids the operations are asked about: the root, and what is created
DirIds == 1..MaxDirId

\* The targets of symlinks: "" and "t"
DirTargets == {<<>>, <<116>>}

\* Is id the id of a directory of the open transaction?  The callers take
\* the parents they pass from entries they looked up.
IsDirId(id) ==
    /\ read_node(TxCtx(Tx), id).err = "ok"
    /\ read_node(TxCtx(Tx), id).node.filetype = FT_Dir

InitDir ==
    /\ fs = Filesystem_format(Device_new(DirBlocks, 0)).fs
    /\ tx = NoTransaction
    /\ pre = NoFilesystem
    /\ fs_ops = 0
    /\ t_storage = MapStorage_new
    /\ t_alloc = BitmapAllocator_new(0)
    /\ t_root = 0
    /\ t_ref = <<>>
    /\ t_ops = 0
    /\ t_max = 0
    /\ AllocIdle
    /\ BufIdle

\* The state after an operation of the open transaction left the context c
InDirTx(c) ==
    /\ fs_ops < MaxDirOps
    /\ fs_ops' = fs_ops + 1
    /\ tx' = [state |-> "open", cache |-> c.storage.cache, superblock |-> c.sb,
              block_alloc |-> c.alloc]
    /\ fs' = [fs EXCEPT !.storage = c.storage.inner]
    /\ UNCHANGED <<pre, treevars, allocvars, bufvars>>

\* Transaction::create_dir
CreateDir ==
    \E parent \in DirIds, name \in FsNames :
        /\ tx.state = "open"
        /\ IsDirId(parent)
        /\ InDirTx(Call("create_dir", <<TxCtx(Tx), parent, name>>).c)

\* Transaction::create_file
CreateFileIn ==
    \E parent \in DirIds, name \in FsNames :
        /\ tx.state = "open"
        /\ IsDirId(parent)
        /\ InDirTx(Call("File::create", <<TxCtx(Tx), parent, FT_File, name>>).c)

\* Transaction::create_symlink
CreateSymlink ==
    \E parent \in DirIds, name \in FsNames, target \in DirTargets :
        /\ tx.state = "open"
        /\ IsDirId(parent)
        /\ InDirTx(Call("Symlink::create", <<TxCtx(Tx), parent, name, target>>).c)

\* Transaction::link_file
LinkFile ==
    \E parent \in DirIds, id \in DirIds, name \in FsNames :
        /\ tx.state = "open"
        /\ IsDirId(parent)
        /\ InDirTx(Call("link_file", <<TxCtx(Tx), parent, id, name>>).c)

\* Transaction::unlink_file
UnlinkFile ==
    \E parent \in DirIds, name \in FsNames :
        /\ tx.state = "open"
        /\ IsDirId(parent)
        /\ InDirTx(Call("unlink_file", <<TxCtx(Tx), parent, name>>).c)

\* Transaction::rename_entry
RenameEntry ==
    \E old_parent \in DirIds, old_name \in FsNames, new_parent \in DirIds, new_name \in FsNames :
        /\ tx.state = "open"
        /\ IsDirId(old_parent)
        /\ IsDirId(new_parent)
        /\ InDirTx(Call("rename_entry",
                        <<TxCtx(Tx), old_parent, old_name, new_parent, new_name>>).c)

\* Transaction::remove_dir
RemoveDir ==
    \E parent \in DirIds, name \in FsNames :
        /\ tx.state = "open"
        /\ IsDirId(parent)
        /\ InDirTx(Call("remove_dir", <<TxCtx(Tx), parent, name>>).c)

\* Transaction::write_file_at, two bytes at the start of the file
WriteFile ==
    \E id \in DirIds :
        /\ tx.state = "open"
        /\ InDirTx(Call("File::write_at", <<TxCtx(Tx), id, 0, MkBuf(2, 1)>>).c)

NextDir ==
    \/ Begin \/ CreateDir \/ CreateFileIn \/ CreateSymlink \/ LinkFile
    \/ UnlinkFile \/ RenameEntry \/ RemoveDir \/ WriteFile

SpecDir == InitDir /\ [][NextDir]_vars

\* ------------------------------------------------------------------------
\* The directory tree in use: the same operations in a transaction that has
\* already created the directory b (2) under the root, the file a (3) under
\* the root, the files a (4) and b (5) under 2, and has then replaced the
\* file b of 2 by a directory b (6).
\* ------------------------------------------------------------------------
DirHistory ==
    << <<"create_dir", <<ROOT, <<98>>>>>>,
       <<"File::create", <<ROOT, FT_File, <<97>>>>>>,
       <<"File::create", <<2, FT_File, <<97>>>>>>,
       <<"File::create", <<2, FT_File, <<98>>>>>>,
       <<"unlink_file", <<2, <<98>>>>>>,
       <<"create_dir", <<2, <<98>>>>>> >>

\* The context after the operations ops, done one after the other from c
RECURSIVE Replay(_, _)
Replay(c, ops) ==
    IF ops = <<>> THEN c
    ELSE Replay(Call(ops[1][1], <<c>> \o ops[1][2]).c, Tail(ops))

InitDirUsed ==
    /\ fs = Filesystem_format(Device_new(DirBlocks, 0)).fs
    /\ \E c \in {Replay(TxCtx(Transaction_new(fs)), DirHistory)} :
           tx = [state |-> "open", cache |-> c.storage.cache, superblock |-> c.sb,
                 block_alloc |-> c.alloc]
    /\ pre = fs
    /\ fs_ops = 0
    /\ t_storage = MapStorage_new
    /\ t_alloc = BitmapAllocator_new(0)
    /\ t_root = 0
    /\ t_ref = <<>>
    /\ t_ops = 0
    /\ t_max = 0
    /\ AllocIdle
    /\ BufIdle

NextDirUsed ==
    \/ CreateDir \/ CreateFileIn \/ CreateSymlink \/ LinkFile
    \/ UnlinkFile \/ RenameEntry \/ RemoveDir \/ WriteFile

SpecDirUsed == InitDirUsed /\ [][NextDirUsed]_vars

\* ------------------------------------------------------------------------
\* Claims about directories
\* ------------------------------------------------------------------------
\* The entry `.` or `..` (name) of the directory id in the context c
DotEntry(c, id, name) == DirEntry_read(c.storage, c.sb, id, fnv_hash(name))

\* The blocks one operation can take: a split at every level of the tree
\* for each of its items, and an extent
MinFree == 8

\* The device has room for one more operation
HasRoom == TxCtx(Tx).alloc.available >= MinFree

\* C22: create_dir(parent, name) fails with DirEntryExists if parent already
\* has an entry with that name; otherwise it returns a fresh id, and then the
\* tree holds a node of filetype Dir with links 1 for the id, an entry
\* name -> id under parent, an entry `.` -> id under id and an entry
\* `..` -> parent under id.  (It returns the id when the device has room.)
C22_CreateDir ==
    tx.state = "open" =>
        \A parent \in DirIds, name \in FsNames :
            IsDirId(parent) =>
                With(create_dir(TxCtx(Tx), parent, name), LAMBDA r :
                With(find_entry(TxCtx(Tx), parent, name), LAMBDA before :
                    /\ before.err = "ok" => r.err = "DirEntryExists" /\ r.c = TxCtx(Tx)
                    /\ before.err = "DirEntryNotFound" =>
                        /\ HasRoom => r.err = "ok"
                        /\ r.err = "ok" =>
                            /\ read_node(TxCtx(Tx), r.id).err = "NodeNotFound"
                            /\ read_node(r.c, r.id).err = "ok"
                            /\ read_node(r.c, r.id).node.filetype = FT_Dir
                            /\ read_node(r.c, r.id).node.links = 1
                            /\ find_entry(r.c, parent, name).err = "ok"
                            /\ find_entry(r.c, parent, name).entry
                                   = [filetype |-> FT_Dir, id |-> r.id, name |-> name]
                            /\ DotEntry(r.c, r.id, DirEntryName_itself).err = "ok"
                            /\ DotEntry(r.c, r.id, DirEntryName_itself).entry.id = r.id
                            /\ DotEntry(r.c, r.id, DirEntryName_parent).err = "ok"
                            /\ DotEntry(r.c, r.id, DirEntryName_parent).entry.id = parent))

\* A directory was created under a directory other than the root: it is
\* found there with its node and its `.` and `..`; its name is taken in that
\* parent, and another name is free there and can be created
C22_Witness ==
    /\ tx.state = "open"
    /\ \E parent \in DirIds \ {ROOT}, name \in FsNames, other \in FsNames :
           /\ IsDirId(parent)
           /\ find_entry(TxCtx(Tx), parent, name).err = "ok"
           /\ find_entry(TxCtx(Tx), parent, name).entry.filetype = FT_Dir
           /\ IsDirId(find_entry(TxCtx(Tx), parent, name).entry.id)
           /\ DotEntry(TxCtx(Tx), find_entry(TxCtx(Tx), parent, name).entry.id,
                       DirEntryName_parent).entry.id = parent
           /\ create_dir(TxCtx(Tx), parent, name).err = "DirEntryExists"
           /\ find_entry(TxCtx(Tx), parent, other).err = "DirEntryNotFound"
           /\ create_dir(TxCtx(Tx), parent, other).err = "ok"

\* Does the directory id hold an entry other than `.` and `..`?  (Tree::get
\* of every name the operations use.)
HasChild(c, id) == \E name \in FsNames : find_entry(c, id, name).err = "ok"

AllNames == FsNames \cup {DirEntryName_itself, DirEntryName_parent}

\* The names of the entries stored under id (Tree::get of every name)
StoredNames(c, id) == {name \in AllNames : DotEntry(c, id, name).err = "ok"}

MovesIntoItself(c, e, new_parent) ==
    /\ e.filetype = FT_Dir
    /\ is_ancestor(c.storage, c.sb, e.id, new_parent).yes

\* C25: rename_entry(old_parent, old_name, new_parent, new_name) whose source
\* entry exists, whose destination entry does not, and which does not move a
\* directory into its own descendant succeeds; afterwards the old name is
\* not found under old_parent and the new name under new_parent is found
\* with the source's id and filetype.
C25_RenameSucceeds ==
    tx.state = "open" /\ HasRoom =>
        \A old_parent \in DirIds, new_parent \in DirIds, old_name \in FsNames, new_name \in FsNames :
            IsDirId(old_parent) /\ IsDirId(new_parent) =>
                With(find_entry(TxCtx(Tx), old_parent, old_name), LAMBDA src :
                With(rename_entry(TxCtx(Tx), old_parent, old_name, new_parent, new_name), LAMBDA r :
                    /\ src.err = "ok"
                    /\ find_entry(TxCtx(Tx), new_parent, new_name).err = "DirEntryNotFound"
                    /\ ~MovesIntoItself(TxCtx(Tx), src.entry, new_parent)
                    => /\ r.err = "ok"
                       /\ find_entry(r.c, old_parent, old_name).err = "DirEntryNotFound"
                       /\ find_entry(r.c, new_parent, new_name).err = "ok"
                       /\ find_entry(r.c, new_parent, new_name).entry
                              = [src.entry EXCEPT !.name = new_name]))

\* C26: rename_entry of a directory to a new_parent that is the directory
\* itself or one of its descendants returns InvalidMove, for any new name
\* that is free in new_parent, and changes nothing.
C26_InvalidMove ==
    tx.state = "open" =>
        \A old_parent \in DirIds, new_parent \in DirIds, old_name \in FsNames, new_name \in FsNames :
            IsDirId(old_parent) /\ IsDirId(new_parent) =>
                With(find_entry(TxCtx(Tx), old_parent, old_name), LAMBDA src :
                With(rename_entry(TxCtx(Tx), old_parent, old_name, new_parent, new_name), LAMBDA r :
                    /\ src.err = "ok"
                    /\ find_entry(TxCtx(Tx), new_parent, new_name).err = "DirEntryNotFound"
                    /\ MovesIntoItself(TxCtx(Tx), src.entry, new_parent)
                    => /\ r.err = "InvalidMove"
                       /\ r.c = TxCtx(Tx)))

AllDirIds == 1..(Len(DirHistory) + MaxDirOps + 1)

\* The number of directory entries that reference the node id
LinkCount(c, id) ==
    Cardinality({pn \in AllDirIds \X FsNames :
                    /\ find_entry(c, pn[1], pn[2]).err = "ok"
                    /\ find_entry(c, pn[1], pn[2]).entry.id = id})

\* C28: link_file is rejected with IsDir when the target is a directory;
\* for a file or symlink whose links field equals the number of entries that
\* reference it, link_file under a free name succeeds, adds one entry that
\* references the node and increments links by one, so that the two stay
\* equal.
C28_LinkFile ==
    tx.state = "open" /\ HasRoom =>
        \A parent \in DirIds, id \in DirIds, name \in FsNames :
            IsDirId(parent) =>
                With(read_node(TxCtx(Tx), id), LAMBDA n :
                With(link_file(TxCtx(Tx), parent, id, name), LAMBDA r :
                    n.err = "ok" /\ find_entry(TxCtx(Tx), parent, name).err = "DirEntryNotFound" =>
                        IF n.node.filetype = FT_Dir
                        THEN r.err = "IsDir" /\ r.c = TxCtx(Tx)
                        ELSE n.node.links = LinkCount(TxCtx(Tx), id) =>
                                 /\ r.err = "ok"
                                 /\ find_entry(r.c, parent, name).err = "ok"
                                 /\ find_entry(r.c, parent, name).entry.id = id
                                 /\ LinkCount(r.c, id) = LinkCount(TxCtx(Tx), id) + 1
                                 /\ read_node(r.c, id).err = "ok"
                                 /\ read_node(r.c, id).node.links = n.node.links + 1))

\* The extent of the node id at the file offset 0, where the writes of the
\* operations begin.  Result of Tree::get with the decoded extent
ExtentAt0(c, id) ==
    With(Tree_get(c.storage, c.sb.root_addr, Key_new(id, DT_Extent, 0)), LAMBDA g :
        [some |-> g.some, ext |-> Extent_read_from_bytes(g.data).ext])

\* Are the blocks of the extent ext free in the allocator al?
ExtentFree(al, ext) == \A a \in ext.start..(ext.start + ext.len - 1) : ~al.bits[a + 1]

\* C29: unlink_file on an entry that names a directory fails with IsDir and
\* changes nothing; on an entry that names a file or symlink it removes the
\* entry; if the node had one link, the node item and its extent items are
\* removed and the blocks of the extents are free; otherwise the node
\* remains with links decreased by one.
C29_UnlinkFile ==
    tx.state = "open" =>
        \A parent \in DirIds, name \in FsNames :
            IsDirId(parent) =>
                With(find_entry(TxCtx(Tx), parent, name), LAMBDA e :
                With(read_node(TxCtx(Tx), e.entry.id), LAMBDA n :
                With(ExtentAt0(TxCtx(Tx), e.entry.id), LAMBDA x :
                With(unlink_file(TxCtx(Tx), parent, name), LAMBDA r :
                    e.err = "ok" =>
                        IF e.entry.filetype = FT_Dir
                        THEN r.err = "IsDir" /\ r.c = TxCtx(Tx)
                        ELSE n.err = "ok" /\ n.node.links >= 1 =>
                                 /\ r.err = "ok"
                                 /\ find_entry(r.c, parent, name).err = "DirEntryNotFound"
                                 /\ IF n.node.links = 1
                                    THEN /\ read_node(r.c, e.entry.id).err = "NodeNotFound"
                                         /\ ~ExtentAt0(r.c, e.entry.id).some
                                         /\ x.some => ExtentFree(r.c.alloc, x.ext)
                                    ELSE /\ read_node(r.c, e.entry.id).err = "ok"
                                         /\ read_node(r.c, e.entry.id).node.links
                                                = n.node.links - 1))))

\* The greater of two sizes
MaxOf(a, b) == IF a >= b THEN a ELSE b

\* C30: write_file_at(id, off, buf) on an existing file returns the number of
\* bytes written unless the device is full, and afterwards the node's size
\* is max(old size, off + written); a write that ends past the current size
\* extends the size to off + written.
C30_WriteExtendsSize ==
    tx.state = "open" =>
        \A id \in FileIds, offset \in FsOffsets, buf \in FsBufs :
            With(read_node(TxCtx(Tx), id), LAMBDA n :
            With(File_write_at(TxCtx(Tx), id, offset, buf), LAMBDA w :
                n.err = "ok" /\ n.node.filetype = FT_File =>
                    \/ w.err = "NoSpace"
                    \/ /\ w.err = "ok"
                       /\ read_node(w.c, id).err = "ok"
                       /\ read_node(w.c, id).node.size
                              = MaxOf(n.node.size, offset + w.written)))

FormatBlocks == {FsBlocks, 2 * FsBlocks, 8 * BLOCK_SIZE + 1}

BitmapBlocks(n) == DivCeil(DivCeil(n, 8), BLOCK_SIZE)

\* The device with byte i of block 0 replaced by a byte that differs from it
Unsigned(storage, i) ==
    With(Block_data(Storage_read_at(storage, SUPER_ADDR).block), LAMBDA data :
        Storage_write_at(storage, [bytes |-> [data EXCEPT ![i] = (data[i] + 1) % 256]],
                         SUPER_ADDR))

\* C34: format of a device with N blocks succeeds and leaves block 0, the
\* bitmap blocks 1..B and the root block B + 1 allocated, block_alloc_start 1,
\* root_addr B + 1, the root directory's node item (NodeId(1), a directory)
\* with its `.` and `..` entries pointing at NodeId(1), and next_node_id 2;
\* mount of the formatted device succeeds and reads back the same superblock;
\* mount of a device whose block 0 lacks the signature fails.
C34_FormatThenMount ==
    tx.state = "none" =>
        \A n \in FormatBlocks, fill \in Fills :
            With(Filesystem_format(Device_new(n, fill)), LAMBDA f :
            With(Filesystem_mount(f.fs.storage), LAMBDA m :
            With(Ctx(f.fs.storage, f.fs.block_alloc, f.fs.superblock), LAMBDA c :
                /\ f.err = "ok"
                /\ \A a \in 0..(BitmapBlocks(n) + 1) : f.fs.block_alloc.bits[a + 1]
                /\ f.fs.superblock.block_alloc_start = 1
                /\ f.fs.superblock.root_addr = BitmapBlocks(n) + 1
                /\ read_node(c, ROOT).err = "ok"
                /\ read_node(c, ROOT).node.filetype = FT_Dir
                /\ DotEntry(c, ROOT, DirEntryName_itself).err = "ok"
                /\ DotEntry(c, ROOT, DirEntryName_itself).entry.id = ROOT
                /\ DotEntry(c, ROOT, DirEntryName_parent).err = "ok"
                /\ DotEntry(c, ROOT, DirEntryName_parent).entry.id = ROOT
                /\ f.fs.superblock.next_node_id = 2
                /\ m.err = "ok"
                /\ m.fs.superblock = f.fs.superblock
                /\ \A a \in 0..(BitmapBlocks(n) + 1) : m.fs.block_alloc.bits[a + 1]
                /\ Filesystem_mount(Device_new(n, fill)).err # "ok"
                /\ \A i \in 1..Len(SIGNATURE) :
                       Filesystem_mount(Unsigned(f.fs.storage, i)).err # "ok")))

\* The filesystem under test is a freshly formatted device that mounts,
\* and the same device before format does not.
C34_Witness ==
    /\ tx.state = "none"
    /\ fs.superblock.next_node_id = 2
    /\ Filesystem_mount(fs.storage).err = "ok"
    /\ Filesystem_mount(fs.storage).fs.superblock = fs.superblock
    /\ Filesystem_mount(Device_new(FsBlocks, 165)).err = "EINVAL"

\* ------------------------------------------------------------------------
\* Node ids over transactions: nodes are created and removed in
\* transactions that are committed or dropped, one after the other.
\* ------------------------------------------------------------------------
NextIds ==
    \/ Begin \/ CreateDir \/ CreateFileIn \/ CreateSymlink
    \/ UnlinkFile \/ RemoveDir \/ Commit \/ Drop

SpecIds == InitDir /\ [][NextIds]_vars

\* The results of the creations the open transaction can be asked for
Creations ==
    UNION {{create_dir(TxCtx(Tx), parent, name),
            File_create(TxCtx(Tx), parent, FT_File, name),
            Symlink_create(TxCtx(Tx), parent, name, <<>>)} :
           parent \in {id \in DirIds : IsDirId(id)}, name \in FsNames}

\* Every id a creation of the open transaction returns is the staged
\* next_node_id, is not NodeId(0), is not below the live next_node_id, names
\* no node the transaction can read, and the staged next_node_id is above it
\* afterwards; every node the transaction can read has an id below the
\* staged next_node_id.
FreshIds ==
    tx.state = "open" =>
        /\ \A r \in Creations :
               r.err = "ok" =>
                   /\ r.id = tx.superblock.next_node_id
                   /\ r.id # 0
                   /\ r.id >= fs.superblock.next_node_id
                   /\ read_node(TxCtx(Tx), r.id).err # "ok"
                   /\ r.c.sb.next_node_id > r.id
        /\ \A id \in 0..(tx.superblock.next_node_id + 1) :
               read_node(TxCtx(Tx), id).err = "ok" =>
                   id >= 1 /\ id < tx.superblock.next_node_id

\* No step lowers the live next_node_id, no operation of a transaction lowers
\* the staged one, and a commit makes the staged one the live one.
IdsNeverDecrease ==
    /\ fs'.superblock.next_node_id >= fs.superblock.next_node_id
    /\ tx.state = "open" /\ tx'.state = "open" =>
           tx'.superblock.next_node_id >= tx.superblock.next_node_id
    /\ tx.state = "open" /\ tx'.state = "committed" =>
           fs'.superblock.next_node_id = tx.superblock.next_node_id

\* C35: across transactions that are committed one after the other, a
\* creation returns an id above every id returned before a commit, an id is
\* never NodeId(0) and never the id of a node that exists or was removed, and
\* the live next_node_id never decreases.
C35_NodeIdsIncrease == [](FreshIds) /\ [][IdsNeverDecrease]_vars

\* A second transaction, begun after a commit that raised the live
\* next_node_id, has removed a node and created one.
C35_Witness ==
    /\ tx.state = "open"
    /\ fs.superblock.next_node_id > 2
    /\ tx.superblock.next_node_id > fs.superblock.next_node_id
    /\ \E id \in 2..(tx.superblock.next_node_id - 1) :
           read_node(TxCtx(Tx), id).err = "NodeNotFound"

\* The node stored at addr in the tree under test
TNode(addr) == Storage_read_at(t_storage, addr).block

\* The removes that leave a leaf deficient under its parent: the branch at
\* parent_addr has the leaf as child idx, and key is stored in the leaf; with
\* the leaf as the remove leaves it and its siblings.
DeficientCases ==
    {cs \in [parent_addr : {a \in TreeBranches : TNode(a).height = 1},
             idx : 1..4, key : DOMAIN t_ref] :
        /\ cs.idx <= item_count(TNode(cs.parent_addr))
        /\ get_item_idx(TNode(TNode(cs.parent_addr).items[cs.idx].child), cs.key) # 0
        /\ is_deficient(used_space(
               Leaf_remove(TNode(TNode(cs.parent_addr).items[cs.idx].child), cs.key).node))}

\* C36: when a remove leaves a leaf deficient, the leaf borrows from its
\* right sibling if that can spare items; else from its left sibling if that
\* can spare items; only if neither can is it merged with a sibling, with
\* the right one if there is one and the two fit in a node, with the left
\* one otherwise.
C36_BorrowBeforeMerge ==
    \A cs \in DeficientCases :
        With(TNode(cs.parent_addr), LAMBDA parent :
        With(child_at(parent, cs.idx).addr, LAMBDA child_addr :
        With(Leaf_remove(TNode(child_addr), cs.key).node, LAMBDA child :
        With(child_at(parent, cs.idx + 1), LAMBDA right :
        With(child_at(parent, cs.idx - 1), LAMBDA left :
        With(Tree_remove(TreeWorld, t_root, cs.key), LAMBDA r :
        With(right.some /\ rotate_left(child, TNode(right.addr)).err = "ok", LAMBDA right_spares :
        With(left.some /\ rotate_right(child, TNode(left.addr)).err = "ok", LAMBDA left_spares :
            /\ r.err = "ok"
            /\ right_spares =>
                   /\ Storage_read_at(r.w.storage, child_addr).block
                          = rotate_left(child, TNode(right.addr)).self
                   /\ Storage_read_at(r.w.storage, right.addr).block
                          = rotate_left(child, TNode(right.addr)).sibling
                   /\ r.w.alloc = t_alloc
            /\ ~right_spares /\ left_spares =>
                   /\ Storage_read_at(r.w.storage, child_addr).block
                          = rotate_right(child, TNode(left.addr)).self
                   /\ Storage_read_at(r.w.storage, left.addr).block
                          = rotate_right(child, TNode(left.addr)).sibling
                   /\ r.w.alloc = t_alloc
            /\ ~right_spares /\ ~left_spares =>
                   /\ right.some /\ Node_merge(child, TNode(right.addr)).err = "ok" =>
                          ~r.w.alloc.bits[right.addr + 1]
                   /\ ~(right.some /\ Node_merge(child, TNode(right.addr)).err = "ok")
                      /\ left.some /\ Node_merge(TNode(left.addr), child).err = "ok" =>
                          ~r.w.alloc.bits[child_addr + 1]))))))))

\* Is the node a branch with exactly one child?
SingleChildBranch(node) == node.height # 0 /\ item_count(node) = 1

\* C37: after a remove the root is not a branch with exactly one child; when
\* the remove leaves the root branch with a single child, root_addr becomes
\* that child's address and the old root block, allocated before, is free
\* afterwards, the allocator having one more free block for it.
C37_RootCollapses ==
    \A key \in TreeKeys :
        With(Tree_remove(TreeWorld, t_root, key), LAMBDA r :
        With(Storage_read_at(r.w.storage, t_root).block, LAMBDA old_root :
            /\ r.err = "ok"
            /\ ~SingleChildBranch(Storage_read_at(r.w.storage, r.root_addr).block)
            /\ SingleChildBranch(old_root) =>
                   /\ r.root_addr = child_at(old_root, 1).addr
                   /\ r.root_addr # t_root
                   /\ t_alloc.bits[t_root + 1]
                   /\ ~r.w.alloc.bits[t_root + 1]
                   /\ r.w.alloc.available
                          = t_alloc.available
                            + Cardinality(NodesUnder(t_storage, t_root))
                            - Cardinality(NodesUnder(r.w.storage, r.root_addr))
            /\ r.root_addr # t_root => SingleChildBranch(old_root)))

\* A remove has collapsed the root: the tree under test has a branch as its
\* root, with two leaves, and removing some key leaves a leaf as the root.
C37_Witness ==
    /\ RootHeight = 1
    /\ \E key \in DOMAIN t_ref :
           With(Tree_remove(TreeWorld, t_root, key), LAMBDA r :
               /\ r.err = "ok"
               /\ r.root_addr # t_root
               /\ Storage_read_at(r.w.storage, r.root_addr).block.height = 0)

\* ------------------------------------------------------------------------
\* Extents of files written at and beyond the second block: the filesystem
\* under test, with writes at the start of the first block, short of its
\* end and at the start of the second block.
\* ------------------------------------------------------------------------
ExtOffsets == {0, BLOCK_SIZE - 2, BLOCK_SIZE}

\* Transaction::write_file_at
WriteFileFar ==
    \E id \in FsIds, offset \in ExtOffsets, buf \in FsBufs :
        /\ tx.state = "open"
        /\ InTx(Call("File::write_at", <<TxCtx(Tx), id, offset, buf>>).c)

NextExt == Begin \/ CreateFile \/ WriteFileFar \/ TruncateFile

SpecExt == InitFs /\ [][NextExt]_vars

\* The extent items of the file id in the tree of c: [start, len], the
\* logical start in bytes and the length in blocks
FileExtents(c, id) ==
    {[start |-> key[3],
      len |-> Extent_read_from_bytes(Tree_get(c.storage, c.sb.root_addr, key).data).ext.len] :
        key \in {k \in KeysUnder(c.storage, c.sb.root_addr) :
                     k[1] = id /\ k[2] = DT_Extent}}

\* Are the logical byte ranges of the extent items of id pairwise disjoint?
Disjoint(c, id) ==
    \A e1, e2 \in FileExtents(c, id) :
        e1 # e2 =>
            \/ e1.start + e1.len * BLOCK_SIZE <= e2.start
            \/ e2.start + e2.len * BLOCK_SIZE <= e1.start

\* C38: the logical byte ranges [start, start + len * BLOCK_SIZE) of the
\* extent items of a file are pairwise disjoint after any sequence of
\* write_file_at and truncate_file: in every state of the open transaction,
\* and after any two further writes to a file.
C38_ExtentsDisjoint ==
    tx.state = "open" =>
        \A id \in FileIds :
            /\ Disjoint(TxCtx(Tx), id)
            /\ \A o1 \in ExtOffsets, b1 \in FsBufs :
                   With(File_write_at(TxCtx(Tx), id, o1, b1).c, LAMBDA c1 :
                       /\ Disjoint(c1, id)
                       /\ \A o2 \in ExtOffsets, b2 \in FsBufs :
                              Disjoint(File_write_at(c1, id, o2, b2).c, id))

\* The references to child blocks in the tree of c: <<branch address, index>>
ChildRefs(c) ==
    {ref \in NodesUnder(c.storage, c.sb.root_addr) \X (1..4) :
        With(Storage_read_at(c.storage, ref[1]).block, LAMBDA node :
            node.height # 0 /\ ref[2] <= item_count(node))}

ChildOf(c, ref) == Storage_read_at(c.storage, ref[1]).block.items[ref[2]].child

\* The extent items in the tree of c, of all files: [key, start, len] with
\* the first block and the number of blocks
AllExtents(c) ==
    {[key |-> key,
      start |-> Extent_read_from_bytes(Tree_get(c.storage, c.sb.root_addr, key).data).ext.start,
      len |-> Extent_read_from_bytes(Tree_get(c.storage, c.sb.root_addr, key).data).ext.len] :
        key \in {k \in KeysUnder(c.storage, c.sb.root_addr) : k[2] = DT_Extent}}

ExtentBlocks(e) == e.start..(e.start + e.len - 1)

IsAllocatedBlock(c, addr) == addr < c.alloc.count /\ c.alloc.bits[addr + 1]

\* C39: in every state of an open transaction every block that is a node of
\* the tree at root_addr, and every block of an extent item, is marked
\* allocated in the transaction's allocator; no block is the child of two
\* branch items or the root and a child, no block belongs to two extents,
\* and no block is both a tree node and an extent block.
C39_ReferencedBlocksAllocated ==
    tx.state = "open" =>
        With(TxCtx(Tx), LAMBDA c :
        With(NodesUnder(c.storage, c.sb.root_addr), LAMBDA nodes :
        With(ChildRefs(c), LAMBDA refs :
        With(AllExtents(c), LAMBDA extents :
            /\ \A addr \in nodes : IsAllocatedBlock(c, addr)
            /\ \A e \in extents : \A addr \in ExtentBlocks(e) : IsAllocatedBlock(c, addr)
            /\ \A r1 \in refs :
                   /\ ChildOf(c, r1) # c.sb.root_addr
                   /\ \A r2 \in refs : r1 # r2 => ChildOf(c, r1) # ChildOf(c, r2)
            /\ \A e1, e2 \in extents :
                   e1 # e2 => ExtentBlocks(e1) \cap ExtentBlocks(e2) = {}
            /\ \A e \in extents : ExtentBlocks(e) \cap nodes = {}))))

\* The open transaction holds a tree with a branch as its root and an extent
\* item, and a block below an allocated one is free: a block was freed.
C39_Witness ==
    /\ tx.state = "open"
    /\ Storage_read_at(Tx.storage, Tx.superblock.root_addr).block.height > 0
    /\ AllExtents(TxCtx(Tx)) # {}
    /\ \E a1, a2 \in 0..(DirBlocks - 1) :
           a1 < a2 /\ ~tx.block_alloc.bits[a1 + 1] /\ tx.block_alloc.bits[a2 + 1]

\* The number of zero bits among the first block_count bits
FreeBits(al) == Cardinality({a \in 0..(al.count - 1) : ~al.bits[a + 1]})

\* C40: after any sequence of allocate and deallocate calls, successful or
\* failing, available is the number of zero bits among the first block_count
\* bits, and the span a successful allocate returned lies within the device
\* and held no allocated block before the call.
C40_AvailableCountsFreeBits ==
    /\ a_al.available = FreeBits(a_al)
    /\ a_last.op = "allocate" /\ a_last.err = "ok" =>
           /\ IsFreeRun(a_last.before, a_last.addr, a_last.count)
           /\ IsAllocatedRun(a_al, a_last.addr, a_last.count)
    /\ a_last.op \in {"allocate", "deallocate"} /\ a_last.err # "ok" =>
           a_al = a_last.before

\* An allocate succeeded on an allocator that blocks were deallocated from
\* or that was restored; it holds both free and allocated blocks.
C40_Witness ==
    /\ a_last.op = "allocate"
    /\ a_last.err = "ok"
    /\ ~a_fresh
    /\ a_last.before.available < AllocBlocks
    /\ a_al.available > 0
    /\ a_al.available < AllocBlocks
    /\ a_al.available = FreeBits(a_al)

====
